---- MODULE Spec2Model ----
(***************************************************************************)
(* Verification model of the Ailon news curation pipeline                  *)
(* (scripts/agents/news_team.py, scripts/agents/tools.py).                 *)
(*                                                                         *)
(* Spec          the LangGraph news graph: collector, the en_process /     *)
(*               ko_process fan-out, categorizer, the scorer retry loop,   *)
(*               selector, assembler, run by the engine in supersteps.     *)
(* SpecThrottle  worker threads of the scorer / categorizer pools calling  *)
(*               _scorer_throttle.                                         *)
(* SpecBatch     _score_batch_with_retry and _classify_batch_with_retry as *)
(*               functions of the batch and of what the service returns.   *)
(***************************************************************************)
EXTENDS Integers, Sequences, FiniteSets, TLC

(***************************************************************************)
(* Bounds of the model.                                                    *)
(***************************************************************************)
\* number of feed entries the collector can return
MaxArticles == 2

(***************************************************************************)
(* Generic helpers.                                                        *)
(***************************************************************************)
Range(s) == {s[i] : i \in DOMAIN s}

Min2(a, b) == IF a < b THEN a ELSE b

Max2(a, b) == IF a > b THEN a ELSE b

\* the elements of a finite set of integers in ascending order
RECURSIVE Ascending(_)
Ascending(S) ==
    IF S = {} THEN <<>>
    ELSE LET m == CHOOSE x \in S : \A y \in S : x <= y
         IN <<m>> \o Ascending(S \ {m})

\* Python's sorted(): the indices 1..n of a list whose keys are keys[1..n],
\* ascending by key, equal keys in their original order (the sort is stable)
RECURSIVE SortPerm(_, _)
SortPerm(keys, n) ==
    IF n = 0 THEN <<>>
    ELSE LET p == SortPerm(keys, n - 1)
             pos == Cardinality({j \in 1..(n - 1) : keys[j] <= keys[n]})
         IN SubSeq(p, 1, pos) \o <<n>> \o SubSeq(p, pos + 1, n - 1)

\* sorted(..., reverse=True): descending by key, equal keys in their original order
RECURSIVE SortPermDesc(_, _)
SortPermDesc(keys, n) ==
    IF n = 0 THEN <<>>
    ELSE LET p == SortPermDesc(keys, n - 1)
             pos == Cardinality({j \in 1..(n - 1) : keys[j] >= keys[n]})
         IN SubSeq(p, 1, pos) \o <<n>> \o SubSeq(p, pos + 1, n - 1)

\* the list left in the order it came in
Unsorted(s, keys) == s

\* the list s sorted by keys (keys[i] is the key of s[i])
Sorted(s, keys) == [i \in 1..Len(s) |-> s[SortPerm(keys, Len(s))[i]]]

SortedDesc(s, keys) == [i \in 1..Len(s) |-> s[SortPermDesc(keys, Len(s))[i]]]

(***************************************************************************)
(* Sources (tools.py).                                                     *)
(***************************************************************************)
\* the keys of SOURCES, in the order of the list
SOURCES ==
    << "wired_ai", "the_verge_ai", "techcrunch_ai", "mit_tech_review", "venturebeat",
       "deepmind_blog", "nvidia_blog", "huggingface_blog",
       "aitimes", "geeknews", "zdnet_ai_editor", "yozm_ai",
       "the_decoder", "marktechpost", "openai_blog", "arstechnica_ai", "the_rundown_ai" >>

CATEGORY_SOURCES ==
    { "wired_ai", "the_verge_ai", "techcrunch_ai", "mit_tech_review",
      "venturebeat", "deepmind_blog", "nvidia_blog", "huggingface_blog" }

SOURCE_SECTION_SOURCES == { "aitimes", "geeknews", "zdnet_ai_editor", "yozm_ai" }

\* the "lang" of each entry of SOURCES
SourceLang(key) == IF key \in SOURCE_SECTION_SOURCES THEN "ko" ELSE "en"

VALID_CATEGORIES == { "research", "models_products", "industry_business" }

category_order == << "research", "models_products", "industry_business" >>

(***************************************************************************)
(* The feed: what fetch_source can return for entry i.  Entries cycle over *)
(* a category source, a Korean section source, a second category source    *)
(* and an English section source.                                          *)
(***************************************************************************)
FeedKeys == << "wired_ai", "aitimes", "techcrunch_ai", "the_decoder" >>

FeedSource(i) == FeedKeys[((i - 1) % Len(FeedKeys)) + 1]

\* published day of entry i (1: today or yesterday, 0: older)
FeedPublished(i) == IF i % Len(FeedKeys) = 3 THEN 0 ELSE 1

\* links of the feed: LinkASlash is LinkA with a trailing slash
LinkA == [netloc |-> "a.example", path |-> "/story", slash |-> FALSE, upper |-> FALSE, query |-> ""]

LinkASlash == [LinkA EXCEPT !.slash = TRUE]

\* LinkA written in capitals, and LinkA with a query string
LinkAUpper == [LinkA EXCEPT !.upper = TRUE]

LinkAQuery == [LinkA EXCEPT !.query = "utm=1"]

LinkB == [LinkA EXCEPT !.netloc = "b.example"]

Links == { LinkA, LinkASlash, LinkAUpper, LinkAQuery, LinkB }

\* entry.get("link", "") of a feed entry that has no link
NoLink == [netloc |-> "", path |-> "", slash |-> FALSE, upper |-> FALSE, query |-> ""]

\* the article dict fetch_source builds, after enrich_and_scrape and _llm_filter_sources
\* the nine _score_* fields, three for each category; absent fields read as 0
ZeroSubs == [c \in VALID_CATEGORIES |-> <<0, 0, 0>>]

NewArticle(i, link, body, ai_filtered) ==
    [ source_key    |-> FeedSource(i),
      lang          |-> SourceLang(FeedSource(i)),
      link          |-> link,
      title         |-> i,
      published     |-> FeedPublished(i),
      body          |-> body,
      display_title |-> "",
      summary       |-> "",
      ai_filtered   |-> ai_filtered,
      deduped       |-> FALSE,
      is_today      |-> FALSE,
      llm_category  |-> "",
      llm_scored    |-> FALSE,
      total_score   |-> -1,
      subs          |-> ZeroSubs ]

(***************************************************************************)
(* State reducers.                                                         *)
(***************************************************************************)
\* a reducer that replaces the old dict instead of merging into it
MergeKeepRight(left, right) == right

_merge_dicts(left, right) ==
    IF DOMAIN left = {} THEN right
    ELSE IF DOMAIN right = {} THEN left
    ELSE [k \in (DOMAIN left) \cup (DOMAIN right) |->
             IF k \in DOMAIN right THEN right[k] ELSE left[k]]

_merge_lists(left, right) == left \o right

\* the reducer declared for each channel of NewsGraphState (none: last value)
Reduce(channel, old, new) ==
    IF channel \in {"sources", "node_timings"} THEN _merge_dicts(old, new)
    ELSE IF channel = "errors" THEN _merge_lists(old, new)
    ELSE new

\* the engine applies one partial update to the state
ApplyUpdate(st, u) ==
    [ch \in DOMAIN st |-> IF ch \in DOMAIN u THEN Reduce(ch, st[ch], u[ch]) ELSE st[ch]]

RECURSIVE ApplyAll(_, _)
ApplyAll(st, us) ==
    IF us = <<>> THEN st ELSE ApplyAll(ApplyUpdate(st, Head(us)), Tail(us))

EmptyDict == [k \in {} |-> 0]

\* the initial state given to app.invoke
InitialState ==
    [ sources              |-> EmptyDict,
      scored_candidates    |-> <<>>,
      scorer_retry_count   |-> 0,
      highlights           |-> <<>>,
      categorized_articles |-> EmptyDict,
      category_order       |-> <<>>,
      source_articles      |-> EmptyDict,
      source_order         |-> <<>>,
      filtered_articles    |-> <<>>,
      deduped_articles     |-> EmptyDict,
      total_count          |-> 0,
      node_timings         |-> EmptyDict,
      errors               |-> <<>> ]

(***************************************************************************)
(* The state of the news graph run.                                        *)
(***************************************************************************)
VARIABLES
    state,      \* the channels of NewsGraphState, as the engine holds them
    heap,       \* the article dicts, by identity: the channels hold references
    tasks,      \* the nodes of the current superstep and how far each has got
    writes,     \* the partial updates returned in this superstep, in order of completion
    send_arg,   \* the state each Send of _route_after_collector carries
    step,       \* supersteps started
    status,     \* "running", "end" (END reached), "aborted" (invoke raised)
    runs,       \* how often each node function was executed
    failed      \* the nodes whose function raised in this run

pipeVars == <<state, heap, tasks, writes, send_arg, step, status, runs, failed>>

\* _scorer_throttle and the worker threads
VARIABLES
    _scorer_call_ts,  \* the shared list: the age in seconds of each recorded call
    _scorer_lock,     \* the thread holding the mutex, 0 when free
    tpc,              \* where each worker thread is
    wait,             \* seconds each thread still has to sleep
    accessor,         \* the thread that read or wrote the list in the last step, else 0
    admitted,         \* ages of the calls admitted within the last window
    calls             \* throttle calls started so far

throttleVars == <<_scorer_call_ts, _scorer_lock, tpc, wait, accessor, admitted, calls>>

\* _score_batch_with_retry and _classify_batch_with_retry on one batch
VARIABLES
    batch_len,   \* len(batch)
    offset,      \* the offset argument
    single,      \* what the service answers when asked about one item alone
    bpc,         \* "ready", then "scored" or "classified"
    first_call,  \* what the first call on the whole batch returned
    scores,      \* what the function returned
    invoked      \* the calls of _score_batch / _classify_batch, in order

batchVars == <<batch_len, offset, single, bpc, first_call, scores, invoked>>

\* one call of a function of the pipeline on arguments of its own
VARIABLES
    fheap,   \* the article dicts the call is given
    farg,    \* its list argument: the articles in order
    fpc,     \* "ready", then the function that was applied
    fout     \* what it returned

fnVars == <<fheap, farg, fpc, fout>>

Nodes == { "collector", "en_process", "ko_process", "categorizer",
           "scorer", "selector", "assembler" }

\* recursion_limit of app.invoke when no config is given
RecursionLimit == 25

NoTasks == [n \in {} |-> "pending"]

\* the list of article references a list comprehension over ids builds
IdsWhere(ids, S) == SelectSeq(ids, LAMBDA i : i \in S)

\* state["sources"].get(key, [])
SourcesGet(st, key) == IF key \in DOMAIN st.sources THEN st.sources[key] ELSE <<>>

\* the articles of the sources in keys, source by source
RECURSIVE ArticlesOf(_, _, _)
ArticlesOf(st, order, keys) ==
    IF order = <<>> THEN <<>>
    ELSE (IF Head(order) \in keys THEN SourcesGet(st, Head(order)) ELSE <<>>)
         \o ArticlesOf(st, Tail(order), keys)

(***************************************************************************)
(* _safe_node: the wrapper of every node function.                         *)
(***************************************************************************)
\* raised: the node function raised; result: what it returned otherwise
_safe_node(node_name, raised, result) ==
    LET r == IF raised THEN [errors |-> <<node_name>>] ELSE result
    IN [ch \in (DOMAIN r) \cup {"node_timings"} |->
           IF ch = "node_timings" THEN (node_name :> 1) ELSE r[ch]]

(***************************************************************************)
(* Node 1: collector.                                                      *)
(***************************************************************************)
\* the links entry i can carry, whether the scrape found a body, and whether
\* _llm_filter_sources marked it
LinkChoices(i) ==
    IF i = 1 THEN {LinkA}
    ELSE IF FeedSource(i) \in CATEGORY_SOURCES THEN {LinkASlash, LinkB}
    ELSE {LinkB}

BodyChoices(i) == IF SourceLang(FeedSource(i)) = "ko" THEN BOOLEAN ELSE {TRUE}

AiFilteredChoices(i) == IF i = 1 THEN BOOLEAN ELSE {FALSE}

\* fetch_all_sources: every key of SOURCES, with the list of its articles
fetch_all_sources(h) ==
    [k \in Range(SOURCES) |-> Ascending({i \in DOMAIN h : h[i].source_key = k})]

collector_node(h) == [sources |-> fetch_all_sources(h)]

(***************************************************************************)
(* Annotation: _process_articles and the two branch nodes.                 *)
(***************************************************************************)
\* _apply_batch_results over the batch calls and the individual retries:
\* the articles in got receive the service's title and summary, in place
_apply_batch_results(h, got) ==
    [i \in DOMAIN h |->
        IF i \in got THEN [h[i] EXCEPT !.display_title = "llm", !.summary = "llm"]
        ELSE h[i]]

\* the safety net at the end of _process_articles
SafetyNet(h, ids) ==
    [i \in DOMAIN h |->
        IF i \in ids
        THEN [h[i] EXCEPT !.display_title = IF @ = "" THEN "title" ELSE @,
                          !.summary = IF @ = "" THEN "desc" ELSE @]
        ELSE h[i]]

_process_articles(h, ids, got) ==
    IF ids = {} THEN h ELSE SafetyNet(_apply_batch_results(h, got), ids)

\* en_process_node: the articles it annotates and the keys it returns
EnArticles(st, h) ==
    SelectSeq(ArticlesOf(st, SOURCES, CATEGORY_SOURCES), LAMBDA i : h[i].lang # "ko")

en_source_keys(st, h) == {h[i].source_key : i \in Range(EnArticles(st, h))}

en_process_node(st, h) ==
    [sources |-> [k \in en_source_keys(st, h) \cap DOMAIN st.sources |-> st.sources[k]]]

\* ko_process_node: its first loop sets the display title of every Korean
\* article and the summary of those without body, in place
KoAll(st, h) ==
    SelectSeq(ArticlesOf(st, SOURCES, SOURCE_SECTION_SOURCES), LAMBDA i : h[i].lang = "ko")

KoArticles(st, h) == SelectSeq(KoAll(st, h), LAMBDA i : h[i].body)

KoFirstLoop(st, h) ==
    [i \in DOMAIN h |->
        IF i \in Range(KoAll(st, h))
        THEN [h[i] EXCEPT !.display_title = "title",
                          !.summary = IF h[i].body THEN @ ELSE "desc"]
        ELSE h[i]]

ko_source_keys(st, h) == {h[i].source_key : i \in Range(KoAll(st, h))}

ko_process_node(st, h) ==
    [sources |-> [k \in ko_source_keys(st, h) \cap DOMAIN st.sources |-> st.sources[k]]]

(***************************************************************************)
(* Deduplication.                                                          *)
(***************************************************************************)
\* the link as it is written
RawUrlKey(link) == link

\* netloc.lower() and path.rstrip("/").lower(): the trailing slash, the
\* capitals, the query and the fragment are not part of the key
_extract_url_key(link) == [netloc |-> link.netloc, path |-> link.path]

\* the title the display-title layer compares: display_title or title
DispTitle(a) == IF a.display_title = "llm" THEN <<"llm", a.title>> ELSE <<"raw", a.title>>

\* SequenceMatcher(...).ratio() >= thr, for the titles of the model: a title
\* is similar to itself and to its neighbours, so that similarity is not
\* transitive
TitleSimilar(x, y) == (x - y) \in {-1, 0, 1}

\* the same for display titles: a translation is never similar to a raw title
DispSimilar(x, y) == x[1] = y[1] /\ TitleSimilar(x[2], y[2])

\* the loop with each candidate compared with the item handled last only
RECURSIVE DedupAgainstLast(_, _, _, _, _)
DedupAgainstLast(h, todo, kept, dupes, seen_urls) ==
    IF todo = <<>> THEN [kept |-> kept, dupes |-> dupes]
    ELSE LET c == Head(todo)
             url_key == _extract_url_key(h[c].link)
             last == IF dupes # <<>> THEN {dupes[Len(dupes)]}
                     ELSE IF kept # <<>> THEN {kept[Len(kept)]} ELSE {}
             is_dup == \E k \in last : TitleSimilar(h[c].title, h[k].title)
         IN IF url_key \in seen_urls \/ is_dup
            THEN DedupAgainstLast(h, Tail(todo), kept, Append(dupes, c), seen_urls)
            ELSE DedupAgainstLast(h, Tail(todo), Append(kept, c), dupes, seen_urls \cup {url_key})

\* the key of no link: the empty string
EmptyUrlKey == _extract_url_key(NoLink)

RECURSIVE DedupLoop(_, _, _, _, _)
DedupLoop(h, todo, kept, dupes, seen_urls) ==
    IF todo = <<>> THEN [kept |-> kept, dupes |-> dupes]
    ELSE LET c == Head(todo)
             url_key == _extract_url_key(h[c].link)
             is_dup == \E k \in Range(kept) :
                          \/ TitleSimilar(h[c].title, h[k].title)
                          \/ DispSimilar(DispTitle(h[c]), DispTitle(h[k]))
         IN IF (url_key # EmptyUrlKey /\ url_key \in seen_urls) \/ is_dup
            THEN DedupLoop(h, Tail(todo), kept, Append(dupes, c), seen_urls)
            ELSE DedupLoop(h, Tail(todo), Append(kept, c), dupes,
                           IF url_key # EmptyUrlKey THEN seen_urls \cup {url_key} ELSE seen_urls)

\* the returned list, and the heap with the _deduped marks it sets in place
_deduplicate_candidates(h, candidates, mark_only) ==
    IF Len(candidates) <= 1 THEN [list |-> candidates, heap |-> h]
    ELSE LET sorted_cands == Sorted(candidates, [i \in DOMAIN candidates |-> h[candidates[i]].published])
             r == DedupLoop(h, sorted_cands, <<>>, <<>>, {})
         IN [ list |-> IF mark_only THEN r.kept \o r.dupes ELSE r.kept,
              heap |-> [i \in DOMAIN h |->
                          IF i \in Range(r.dupes) THEN [h[i] EXCEPT !.deduped = TRUE]
                          ELSE IF i \in Range(r.kept) THEN [h[i] EXCEPT !.deduped = FALSE]
                          ELSE h[i]] ]

(***************************************************************************)
(* Node 4: categorizer.                                                    *)
(***************************************************************************)
_is_today(a) == a.published >= 1

\* what the classification calls give for a candidate: a valid category, or
\* "" when no usable result came back
ClassifyOutcomes == {"research", "models_products", ""}

\* categorizer_node without the default category of its last loop
CategorizerWithoutDefault(st, h, cls) ==
    LET candidates == ArticlesOf(st, SOURCES, CATEGORY_SOURCES)
        d == _deduplicate_candidates(h, candidates, TRUE)
        classified == [i \in DOMAIN h |->
            IF i \in Range(d.list)
            THEN [d.heap[i] EXCEPT
                    !.is_today = _is_today(d.heap[i]),
                    !.llm_category = IF @ = "" THEN cls[i] ELSE @]
            ELSE d.heap[i]]
    IN IF candidates = <<>>
       THEN [heap |-> h, result |-> [scored_candidates |-> <<>>, scorer_retry_count |-> 0]]
       ELSE [heap |-> classified,
             result |-> [scored_candidates |-> d.list, scorer_retry_count |-> 0]]

\* cls[i]: the outcome of the classification of candidate i
categorizer_node(st, h, cls) ==
    LET candidates == ArticlesOf(st, SOURCES, CATEGORY_SOURCES)
        d == _deduplicate_candidates(h, candidates, TRUE)
        cset == Range(d.list)
        classified == [i \in DOMAIN h |->
            IF i \in cset
            THEN [d.heap[i] EXCEPT
                    !.is_today = _is_today(d.heap[i]),
                    !.llm_category = IF @ = "" THEN cls[i] ELSE @]
            ELSE d.heap[i]]
        defaulted == [i \in DOMAIN h |->
            IF i \in cset /\ classified[i].llm_category \notin VALID_CATEGORIES
            THEN [classified[i] EXCEPT !.llm_category = "industry_business"]
            ELSE classified[i]]
    IN IF candidates = <<>>
       THEN [heap |-> h, result |-> [scored_candidates |-> <<>>, scorer_retry_count |-> 0]]
       ELSE [heap |-> defaulted,
             result |-> [scored_candidates |-> d.list, scorer_retry_count |-> 0]]

(***************************************************************************)
(* Node 5: scorer.                                                         *)
(***************************************************************************)
W_NOVELTY == 4
W_RIGOR == 3
W_BUZZ == 3
W_UTILITY == 4
W_IMPACT == 3
W_ACCESS == 3
W_MARKET == 4
W_SIGNAL == 3
W_BREADTH == 3

Weights(category) ==
    IF category = "research" THEN <<W_NOVELTY, W_RIGOR, W_BUZZ>>
    ELSE IF category = "industry_business" THEN <<W_MARKET, W_SIGNAL, W_BREADTH>>
    ELSE <<W_UTILITY, W_IMPACT, W_ACCESS>>

\* the sub-score left as the service gave it
NoClamp(x) == x

Clamp(x) == Min2(10, Max2(0, x))

\* the nine fields are reset, then the three of the category are set
_apply_scores_to_candidate(a, s, category) ==
    LET w == Weights(category)
        c == <<Clamp(s[1]), Clamp(s[2]), Clamp(s[3])>>
    IN [a EXCEPT !.subs = [ZeroSubs EXCEPT ![category] = c],
                 !.total_score = c[1] * w[1] + c[2] * w[2] + c[3] * w[3],
                 !.llm_scored = TRUE]

\* _apply_scores_to_candidate on a result whose sub-score is no number:
\* the nine score fields are reset, then min/max raise TypeError
ApplyScoresRaising(a) == [a EXCEPT !.subs = ZeroSubs]

\* the low default of the fallback loop at the end of scorer_node
DefaultScore(a) ==
    LET w == Weights(a.llm_category)
    IN [a EXCEPT !.subs = [ZeroSubs EXCEPT ![a.llm_category] = <<2, 2, 2>>], !.total_score = 2 * w[1] + 2 * w[2] + 2 * w[3]]

\* what _score_batch_with_retry yields for one candidate (SCORER_BATCH_SIZE = 1):
\* no usable result, sub-scores, or an object whose sub-score is not a number
ScoreTriples == { <<5, 0, 12>> }

ScoreOutcomes ==
    {[kind |-> "none", s |-> <<0, 0, 0>>], [kind |-> "bad", s |-> <<0, 0, 0>>]}
        \cup {[kind |-> "ok", s |-> s] : s \in ScoreTriples}

\* a scorer that submits every candidate not marked as duplicate
AllNonDuplicates(cands, h) == {i \in Range(cands) : ~h[i].deduped}

\* the candidates the scorer submits
Unscored(cands, h) == {i \in Range(cands) : ~h[i].llm_scored /\ ~h[i].deduped}

\* scorer_node up to the fallback loop: retry_count > 0 pops _total_score of
\* the candidates not scored by the service; then the results in applied are
\* applied, and the result of candidate bad (0: none) raises while applied
ScorerApply(st, h, out, applied, bad) ==
    LET cands == Range(st.scored_candidates)
        popped == [i \in DOMAIN h |->
            IF st.scorer_retry_count > 0 /\ i \in cands /\ ~h[i].llm_scored
            THEN [h[i] EXCEPT !.total_score = -1] ELSE h[i]]
    IN [i \in DOMAIN h |->
          IF i \in applied
          THEN _apply_scores_to_candidate(popped[i], out[i].s, popped[i].llm_category)
          ELSE IF i = bad THEN ApplyScoresRaising(popped[i])
          ELSE popped[i]]

ScorerFallback(st, h) ==
    [i \in DOMAIN h |->
        IF i \in Range(st.scored_candidates) /\ h[i].total_score = -1
        THEN DefaultScore(h[i]) ELSE h[i]]

\* the partial update of a scorer pass that did not raise
scorer_node(st) ==
    IF st.scored_candidates = <<>>
    THEN [scored_candidates |-> <<>>, scorer_retry_count |-> st.scorer_retry_count + 1]
    ELSE [scored_candidates |-> st.scored_candidates,
          scorer_retry_count |-> st.scorer_retry_count + 1]

(***************************************************************************)
(* Routing.                                                                *)
(***************************************************************************)
RECURSIVE SumLen(_, _)
SumLen(d, keys) ==
    IF keys = {} THEN 0
    ELSE LET k == CHOOSE x \in keys : TRUE IN Len(d[k]) + SumLen(d, keys \ {k})

\* a router that dispatches the English branch alone
RouteEnOnly(st) ==
    IF SumLen(st.sources, DOMAIN st.sources) = 0 THEN {"assembler"} ELSE {"en_process"}

\* a router that dispatches both branches also when nothing was collected
RouteBothAlways(st) == {"en_process", "ko_process"}

\* the nodes _route_after_collector sends to
_route_after_collector(st) ==
    IF SumLen(st.sources, DOMAIN st.sources) = 0 THEN {"assembler"}
    ELSE {"en_process", "ko_process"}

\* coverage < 0.9 and retry_count < 2
_route_after_scorer(st, h) ==
    LET scorable == {i \in Range(st.scored_candidates) : ~h[i].deduped}
        llm_scored == Cardinality({i \in scorable : h[i].llm_scored})
    IN IF st.scored_candidates = <<>> THEN "selector"
       ELSE IF scorable # {} /\ llm_scored * 10 < 9 * Cardinality(scorable)
               /\ st.scorer_retry_count < 2
            THEN "scorer"
            ELSE "selector"

(***************************************************************************)
(* Node 6: selector.                                                       *)
(***************************************************************************)
HIGHLIGHT_COUNT == 3

CATEGORY_TOP_N == 25

TODAY_MIN == 3

Take(s, n) == SubSeq(s, 1, Min2(n, Len(s)))

\* a.get("_total_score", 0)
ScoreOf(a) == IF a.total_score = -1 THEN 0 ELSE a.total_score

\* the sort keys (score, time) and (day, score, time), as one number each
KeyScoreTime(a) == ScoreOf(a) * 10 + a.published

KeyDayScoreTime(a) == a.published * 10000 + ScoreOf(a) * 10 + a.published

SortedDescBy(h, ids, Key(_)) == SortedDesc(ids, [i \in DOMAIN ids |-> Key(h[ids[i]])])

\* n is a parameter of the function that no statement of it reads
_select_category_top_n(h, articles, n) ==
    LET today == SortedDescBy(h, SelectSeq(articles, LAMBDA i : h[i].is_today), ScoreOf)
        rest == SortedDescBy(h, SelectSeq(articles, LAMBDA i : ~h[i].is_today), ScoreOf)
        first == Take(today, TODAY_MIN)
        filled == first \o Take(rest, TODAY_MIN - Len(first))
        all_by_score == SortedDescBy(h, articles, ScoreOf)
        selected == filled \o SelectSeq(all_by_score, LAMBDA i : i \notin Range(filled))
    IN SortedDescBy(h, selected, KeyDayScoreTime)

\* display_title == title and lang != "ko": taken as not annotated
SkippedAsRaw(a) == a.display_title = "title" /\ a.lang # "ko"

Highlights(h, candidates) ==
    LET highlight_pool == SelectSeq(candidates,
            LAMBDA i : h[i].llm_category = "models_products" /\ ~h[i].ai_filtered)
        today_by_score ==
            SortedDescBy(h, SelectSeq(highlight_pool, LAMBDA i : h[i].is_today), KeyScoreTime)
        rest_by_date_score ==
            SortedDescBy(h, SelectSeq(highlight_pool, LAMBDA i : ~h[i].is_today), KeyDayScoreTime)
        eligible == SelectSeq(today_by_score \o rest_by_date_score,
                              LAMBDA i : ~SkippedAsRaw(h[i]))
    IN SortedDescBy(h, Take(eligible, HIGHLIGHT_COUNT), KeyDayScoreTime)

selector_node(st, h) ==
    LET candidates == st.scored_candidates
        highlights == Highlights(h, candidates)
        remaining == SelectSeq(candidates, LAMBDA i : i \notin Range(highlights))
        deduped_out == SelectSeq(remaining, LAMBDA i : h[i].deduped)
        non_deduped == SelectSeq(remaining, LAMBDA i : ~h[i].deduped)
        passed == SelectSeq(non_deduped, LAMBDA i : ~h[i].ai_filtered)
        filtered_out == SelectSeq(non_deduped, LAMBDA i : h[i].ai_filtered)
        CatOf(i) == IF h[i].llm_category \in VALID_CATEGORIES
                    THEN h[i].llm_category ELSE "industry_business"
    IN IF candidates = <<>>
       THEN [ highlights |-> <<>>,
              categorized_articles |-> [k \in VALID_CATEGORIES |-> <<>>],
              category_order |-> category_order ]
       ELSE [ highlights |-> highlights,
              categorized_articles |-> [k \in VALID_CATEGORIES |->
                  _select_category_top_n(h, SelectSeq(passed, LAMBDA i : CatOf(i) = k), CATEGORY_TOP_N)],
              category_order |-> category_order,
              filtered_articles |-> filtered_out,
              deduped_articles |-> [k \in VALID_CATEGORIES |->
                  SelectSeq(deduped_out, LAMBDA i : CatOf(i) = k)] ]

(***************************************************************************)
(* Node 8: assembler.                                                      *)
(***************************************************************************)
SOURCE_SECTION_LIMIT == 10

\* the Korean section keys that have articles, in the order of SOURCES
SourceOrder(st) ==
    SelectSeq(SOURCES, LAMBDA k : k \in SOURCE_SECTION_SOURCES /\ SourcesGet(st, k) # <<>>)

\* the deduplication of the Korean articles marks them in place
AssemblerDedup(st, h) ==
    _deduplicate_candidates(h, ArticlesOf(st, SOURCES, Range(SourceOrder(st))), FALSE)

assembler_node(st, h) ==
    LET all_ko == AssemblerDedup(st, h).list
        source_articles == [k \in Range(SourceOrder(st)) |->
            Take(SortedDescBy(h, SelectSeq(all_ko, LAMBDA i : h[i].source_key = k),
                              LAMBDA a : a.published),
                 SOURCE_SECTION_LIMIT)]
    IN [ source_articles |-> source_articles,
         source_order |-> SourceOrder(st),
         filtered_articles |-> st.filtered_articles,
         total_count |-> Len(st.highlights)
                         + SumLen(st.categorized_articles, DOMAIN st.categorized_articles)
                         + SumLen(source_articles, DOMAIN source_articles) ]

(***************************************************************************)
(* The graph (_build_graph) and the engine that runs it.                   *)
(***************************************************************************)
\* a graph whose retry edge leads back to the categorizer
RetryFromCategorizer(ran, st, h) ==
    IF "collector" \in ran THEN _route_after_collector(st)
    ELSE IF ran \cap {"en_process", "ko_process"} # {} THEN {"categorizer"}
    ELSE IF "categorizer" \in ran THEN {"scorer"}
    ELSE IF "scorer" \in ran
         THEN {IF _route_after_scorer(st, h) = "scorer" THEN "categorizer" ELSE "selector"}
    ELSE IF "selector" \in ran THEN {"assembler"}
    ELSE {}

\* the nodes triggered after the nodes in ran have completed a superstep;
\* {} is END
_build_graph(ran, st, h) ==
    IF "collector" \in ran THEN _route_after_collector(st)
    ELSE IF ran \cap {"en_process", "ko_process"} # {} THEN {"categorizer"}
    ELSE IF "categorizer" \in ran THEN {"scorer"}
    ELSE IF "scorer" \in ran THEN {_route_after_scorer(st, h)}
    ELSE IF "selector" \in ran THEN {"assembler"}
    ELSE {}

\* what run_news_pipeline returns from the final state
run_news_pipeline(st) ==
    [ch \in (DOMAIN st) \ {"scored_candidates", "scorer_retry_count", "node_timings"} |-> st[ch]]

Pending(n) == status = "running" /\ n \in DOMAIN tasks /\ tasks[n] = "pending"

\* the state a node function is called with
Input(n) == IF n \in DOMAIN send_arg THEN send_arg[n] ELSE state

\* a node function has run: its wrapped result is handed to the engine
Finish(n, raised, result, h) ==
    /\ tasks' = [tasks EXCEPT ![n] = "done"]
    /\ writes' = Append(writes, _safe_node(n, raised, result))
    /\ heap' = h
    /\ runs' = [runs EXCEPT ![n] = @ + 1]
    /\ failed' = IF raised THEN failed \cup {n} ELSE failed
    /\ UNCHANGED <<throttleVars, batchVars, fnVars, state, send_arg, step, status>>

PipeInit ==
    /\ state = InitialState
    /\ heap = EmptyDict
    /\ tasks = ("collector" :> "pending")
    /\ writes = <<>>
    /\ send_arg = EmptyDict
    /\ step = 1
    /\ status = "running"
    /\ runs = [n \in Nodes |-> 0]
    /\ failed = {}

RunCollector ==
    /\ Pending("collector")
    /\ \/ Finish("collector", TRUE, EmptyDict, heap)
       \/ \E S \in SUBSET (1..MaxArticles) :
            \E h \in [S -> UNION {{NewArticle(i, l, b, f) :
                                    l \in LinkChoices(i), b \in BodyChoices(i), f \in AiFilteredChoices(i)}
                                  : i \in 1..MaxArticles}] :
               /\ \A i \in S : h[i].title = i
               /\ Finish("collector", FALSE, collector_node(h), h)

\* the branch annotates its articles in place; got are the articles whose
\* result was applied, and a raise leaves the rest as they were
EnWork ==
    /\ Pending("en_process")
    /\ LET st == Input("en_process")
           ids == Range(EnArticles(st, heap))
       IN \E got \in SUBSET ids :
            \/ /\ heap' = _process_articles(heap, ids, got)
               /\ tasks' = [tasks EXCEPT !["en_process"] = "returning"]
            \/ /\ got # ids
               /\ heap' = _apply_batch_results(heap, got)
               /\ tasks' = [tasks EXCEPT !["en_process"] = "raising"]
    /\ runs' = [runs EXCEPT !["en_process"] = @ + 1]
    /\ UNCHANGED <<throttleVars, batchVars, fnVars, state, writes, send_arg, step, status, failed>>

EnReturn ==
    /\ status = "running" /\ "en_process" \in DOMAIN tasks
    /\ tasks["en_process"] \in {"returning", "raising"}
    /\ LET st == Input("en_process")
           raised == tasks["en_process"] = "raising"
       IN /\ writes' = Append(writes, _safe_node("en_process", raised, en_process_node(st, heap)))
          /\ failed' = IF raised THEN failed \cup {"en_process"} ELSE failed
    /\ tasks' = [tasks EXCEPT !["en_process"] = "done"]
    /\ UNCHANGED <<throttleVars, batchVars, fnVars, state, heap, send_arg, step, status, runs>>

KoWork ==
    /\ Pending("ko_process")
    /\ LET st == Input("ko_process")
           ids == Range(KoArticles(st, heap))
           h1 == KoFirstLoop(st, heap)
       IN \E got \in SUBSET ids :
            \/ /\ heap' = _process_articles(h1, ids, got)
               /\ tasks' = [tasks EXCEPT !["ko_process"] = "returning"]
            \/ /\ got # ids
               /\ heap' = _apply_batch_results(h1, got)
               /\ tasks' = [tasks EXCEPT !["ko_process"] = "raising"]
    /\ runs' = [runs EXCEPT !["ko_process"] = @ + 1]
    /\ UNCHANGED <<throttleVars, batchVars, fnVars, state, writes, send_arg, step, status, failed>>

KoReturn ==
    /\ status = "running" /\ "ko_process" \in DOMAIN tasks
    /\ tasks["ko_process"] \in {"returning", "raising"}
    /\ LET st == Input("ko_process")
           raised == tasks["ko_process"] = "raising"
       IN /\ writes' = Append(writes, _safe_node("ko_process", raised, ko_process_node(st, heap)))
          /\ failed' = IF raised THEN failed \cup {"ko_process"} ELSE failed
    /\ tasks' = [tasks EXCEPT !["ko_process"] = "done"]
    /\ UNCHANGED <<throttleVars, batchVars, fnVars, state, heap, send_arg, step, status, runs>>

RunCategorizer ==
    /\ Pending("categorizer")
    /\ LET cands == Range(ArticlesOf(state, SOURCES, CATEGORY_SOURCES))
       IN \/ /\ cands # {}
             /\ Finish("categorizer", TRUE, EmptyDict, heap)
          \/ \E cls \in [cands -> ClassifyOutcomes] :
               LET r == categorizer_node(state, heap, cls)
               IN Finish("categorizer", FALSE, r.result, r.heap)

RunScorer ==
    /\ Pending("scorer")
    /\ \/ /\ state.scored_candidates = <<>>
          /\ Finish("scorer", FALSE, scorer_node(state), heap)
       \/ /\ state.scored_candidates # <<>>
          /\ \E out \in [Unscored(state.scored_candidates, heap) -> ScoreOutcomes] :
               LET oks == {i \in DOMAIN out : out[i].kind = "ok"}
                   bads == {i \in DOMAIN out : out[i].kind = "bad"}
               IN \/ /\ bads = {}
                     /\ Finish("scorer", FALSE, scorer_node(state),
                               ScorerFallback(state, ScorerApply(state, heap, out, oks, 0)))
                  \/ \E bad \in bads : \E applied \in SUBSET oks :
                        Finish("scorer", TRUE, EmptyDict,
                               ScorerApply(state, heap, out, applied, bad))

RunSelector ==
    /\ Pending("selector")
    /\ \/ /\ state.scored_candidates # <<>>
          /\ Finish("selector", TRUE, EmptyDict, heap)
       \/ Finish("selector", FALSE, selector_node(state, heap), heap)

RunAssembler ==
    /\ Pending("assembler")
    /\ LET st == Input("assembler")
       IN \/ /\ SourceOrder(st) # <<>>
             /\ Finish("assembler", TRUE, EmptyDict, heap)
          \/ Finish("assembler", FALSE, assembler_node(st, AssemblerDedup(st, heap).heap),
                    AssemblerDedup(st, heap).heap)

\* the end of a superstep: the engine applies the returned updates through
\* the reducers, then triggers the next nodes, reaches END, or raises
\* GraphRecursionError when the step limit is used up
Barrier ==
    /\ status = "running"
    /\ \A n \in DOMAIN tasks : tasks[n] = "done"
    /\ LET st == ApplyAll(state, writes)
           next == _build_graph(DOMAIN tasks, st, heap)
       IN /\ state' = st
          /\ writes' = <<>>
          /\ send_arg' = IF "collector" \in DOMAIN tasks THEN [n \in next |-> st] ELSE EmptyDict
          /\ IF next = {}
             THEN /\ status' = "end" /\ tasks' = NoTasks /\ step' = step
             ELSE IF step >= RecursionLimit
             THEN /\ status' = "aborted" /\ tasks' = NoTasks /\ step' = step
             ELSE /\ status' = "running"
                  /\ tasks' = [n \in next |-> "pending"]
                  /\ step' = step + 1
    /\ UNCHANGED <<throttleVars, batchVars, fnVars, heap, runs, failed>>

PipeNext ==
    \/ RunCollector
    \/ EnWork
    \/ EnReturn
    \/ KoWork
    \/ KoReturn
    \/ RunCategorizer
    \/ RunScorer
    \/ RunSelector
    \/ RunAssembler
    \/ Barrier

(***************************************************************************)
(* _scorer_throttle, called by the worker threads of the pools of          *)
(* categorizer_node and scorer_node.  Time advances in whole seconds;      *)
(* the list holds each call's age (now - t) instead of its timestamp.      *)
(***************************************************************************)

\* ThreadPoolExecutor(max_workers=3)
MAX_WORKERS == 3

Workers == 1..MAX_WORKERS

\* "now - t < 5" and "len(_scorer_call_ts) >= 3"
THROTTLE_WINDOW == 5

THROTTLE_LIMIT == 3

\* throttle calls the workers start in one run of the model
MaxCalls == 5

\* time.sleep(5.0 - (now - ts[0]) + 0.2) ends at the first whole second not
\* earlier than the wait
SleepSeconds(age0) == THROTTLE_WINDOW - age0 + 1

\* entering the block without taking the mutex
LockSkip(t) == _scorer_lock' = _scorer_lock

\* with _scorer_lock: the thread enters when the mutex is free
LockAcquire(t) == _scorer_lock = 0 /\ _scorer_lock' = t

LockRelease(t) == _scorer_lock = t /\ _scorer_lock' = 0

\* _scorer_call_ts[:] = [t for t in _scorer_call_ts if now - t < 5]
Pruned(ts) == SelectSeq(ts, LAMBDA age : age < THROTTLE_WINDOW)

ThrottleInit ==
    /\ _scorer_call_ts = <<>>
    /\ _scorer_lock = 0
    /\ tpc = [t \in Workers |-> "idle"]
    /\ wait = [t \in Workers |-> 0]
    /\ accessor = 0
    /\ admitted = <<>>
    /\ calls = 0

\* a worker takes a batch and _score_batch / _classify_batch calls _scorer_throttle
ThrottleEnter(t) ==
    /\ tpc[t] = "idle"
    /\ calls < MaxCalls
    /\ calls' = calls + 1
    /\ tpc' = [tpc EXCEPT ![t] = "acquire1"]
    /\ accessor' = 0
    /\ UNCHANGED <<pipeVars, batchVars, fnVars, _scorer_call_ts, _scorer_lock, wait, admitted>>

ThrottleAcquire1(t) ==
    /\ tpc[t] = "acquire1"
    /\ LockAcquire(t)
    /\ tpc' = [tpc EXCEPT ![t] = "check"]
    /\ accessor' = 0
    /\ UNCHANGED <<pipeVars, batchVars, fnVars, _scorer_call_ts, wait, admitted, calls>>

\* the body of the first with block: prune, then decide how long to wait
ThrottleCheck(t) ==
    /\ tpc[t] = "check"
    /\ LET ts == Pruned(_scorer_call_ts)
       IN /\ _scorer_call_ts' = ts
          /\ wait' = [wait EXCEPT ![t] =
                        IF Len(ts) >= THROTTLE_LIMIT THEN SleepSeconds(ts[1]) ELSE 0]
    /\ accessor' = t
    /\ tpc' = [tpc EXCEPT ![t] = "release1"]
    /\ UNCHANGED <<pipeVars, batchVars, fnVars, _scorer_lock, admitted, calls>>

ThrottleRelease1(t) ==
    /\ tpc[t] = "release1"
    /\ LockRelease(t)
    /\ tpc' = [tpc EXCEPT ![t] = "sleep"]
    /\ accessor' = 0
    /\ UNCHANGED <<pipeVars, batchVars, fnVars, _scorer_call_ts, wait, admitted, calls>>

\* if wait > 0: time.sleep(wait) has returned; then the second with block
ThrottleAcquire2(t) ==
    /\ tpc[t] = "sleep"
    /\ wait[t] = 0
    /\ LockAcquire(t)
    /\ tpc' = [tpc EXCEPT ![t] = "append"]
    /\ accessor' = 0
    /\ UNCHANGED <<pipeVars, batchVars, fnVars, _scorer_call_ts, wait, admitted, calls>>

\* _scorer_call_ts.append(time.time()): the call is admitted
ThrottleAppend(t) ==
    /\ tpc[t] = "append"
    /\ _scorer_call_ts' = Append(_scorer_call_ts, 0)
    /\ admitted' = Append(admitted, 0)
    /\ accessor' = t
    /\ tpc' = [tpc EXCEPT ![t] = "release2"]
    /\ UNCHANGED <<pipeVars, batchVars, fnVars, _scorer_lock, wait, calls>>

\* the thread leaves _scorer_throttle and invokes the service
ThrottleRelease2(t) ==
    /\ tpc[t] = "release2"
    /\ LockRelease(t)
    /\ tpc' = [tpc EXCEPT ![t] = "invoke"]
    /\ accessor' = 0
    /\ UNCHANGED <<pipeVars, batchVars, fnVars, _scorer_call_ts, wait, admitted, calls>>

\* the service call returns and the worker is free for the next batch
InvokeDone(t) ==
    /\ tpc[t] = "invoke"
    /\ tpc' = [tpc EXCEPT ![t] = "idle"]
    /\ accessor' = 0
    /\ UNCHANGED <<pipeVars, batchVars, fnVars, _scorer_call_ts, _scorer_lock, wait, admitted, calls>>

\* one second passes: every recorded call is a second older, sleepers have a
\* second less to sleep
Tick ==
    /\ _scorer_call_ts' = [i \in DOMAIN _scorer_call_ts |->
                             Min2(THROTTLE_WINDOW, _scorer_call_ts[i] + 1)]
    /\ admitted' = SelectSeq([i \in DOMAIN admitted |-> admitted[i] + 1],
                             LAMBDA age : age < THROTTLE_WINDOW)
    /\ wait' = [t \in Workers |-> IF tpc[t] = "sleep" /\ wait[t] > 0 THEN wait[t] - 1 ELSE wait[t]]
    /\ accessor' = 0
    /\ UNCHANGED <<pipeVars, batchVars, fnVars, _scorer_lock, tpc, calls>>

ThrottleNext ==
    \/ \E t \in Workers :
         \/ ThrottleEnter(t)
         \/ ThrottleAcquire1(t)
         \/ ThrottleCheck(t)
         \/ ThrottleRelease1(t)
         \/ ThrottleAcquire2(t)
         \/ ThrottleAppend(t)
         \/ ThrottleRelease2(t)
         \/ InvokeDone(t)
    \/ Tick

(***************************************************************************)
(* _score_batch_with_retry and _classify_batch_with_retry.  The items of   *)
(* a batch are their positions 0..len(batch)-1.  A response is the parsed  *)
(* list the service sent: of each entry, its "i" value, whether int() can  *)
(* convert it, and whether its "cat" is one of VALID_CATEGORIES.           *)
(***************************************************************************)
\* the largest batch
MaxBatch == 3

\* the largest offset argument
MaxOffset == 1

\* the entries a response to a batch of m items is made of: positions in
\* range, one past the range, an "i" that is no integer, an invalid category
Entries(m) ==
    {[i |-> k, isint |-> TRUE, cat |-> TRUE] : k \in 0..m}
        \cup {[i |-> 0, isint |-> FALSE, cat |-> TRUE], [i |-> 0, isint |-> TRUE, cat |-> FALSE]}

\* the empty response stands for every failed call: an exception, an empty
\* or unparsable answer
Responses(m) == UNION {[1..k -> Entries(m)] : k \in 0..m}

GlobalIdx(s) == {s[k]._global_idx : k \in DOMAIN s}

_score_batch(resp, off, m) ==
    LET valid == SelectSeq(resp, LAMBDA e : e.isint)
    IN IF resp = <<>> THEN <<>>
       ELSE IF valid = <<>> /\ Len(resp) = m
            THEN [k \in 1..m |-> [_global_idx |-> off + k - 1]]
            ELSE [k \in 1..Len(valid) |-> [_global_idx |-> off + valid[k].i]]

_classify_batch(resp, off, m) ==
    LET valid == SelectSeq(resp, LAMBDA e : e.isint /\ 0 <= e.i /\ e.i < m /\ e.cat)
        fallback == SelectSeq([k \in 1..Len(resp) |-> [i |-> k - 1, cat |-> resp[k].cat]],
                              LAMBDA e : e.cat)
    IN IF resp = <<>> THEN <<>>
       ELSE IF valid = <<>> /\ Len(resp) = m
            THEN [k \in 1..Len(fallback) |-> [_global_idx |-> off + fallback[k].i]]
            ELSE [k \in 1..Len(valid) |-> [_global_idx |-> off + valid[k].i]]

BatchCall(kind, resp, off, m) ==
    IF kind = "score" THEN _score_batch(resp, off, m) ELSE _classify_batch(resp, off, m)

\* the body shared by _score_batch_with_retry and _classify_batch_with_retry:
\* full, left and right are the service's answers to the whole batch and to
\* its halves; a half of one item is answered as that item alone is
BatchWithRetry(kind, n, off, full, left, right, one) ==
    LET firstR == BatchCall(kind, full, off, n)
        mid == n \div 2
        leftR == BatchCall(kind, IF mid = 1 THEN one[0] ELSE left, off, mid)
        rightR == BatchCall(kind, IF n - mid = 1 THEN one[mid] ELSE right, off + mid, n - mid)
        split == firstR = <<>> /\ n > 1
        s1 == IF split THEN leftR \o rightR ELSE firstR
        partial == 0 < Len(s1) /\ Len(s1) < n
        missing == IF partial THEN {i \in 0..(n - 1) : (off + i) \notin GlobalIdx(s1)} ELSE {}
        retried[i \in 0..n] ==
            IF i = n THEN <<>>
            ELSE (IF i \in missing THEN BatchCall(kind, one[i], off + i, 1) ELSE <<>>)
                     \o retried[i + 1]
        singles[i \in 0..n] ==
            IF i = n THEN <<>>
            ELSE (IF i \in missing THEN << <<i, 1>> >> ELSE <<>>) \o singles[i + 1]
    IN [first |-> firstR,
        scores |-> s1 \o retried[0],
        invoked |-> << <<0, n>> >>
                      \o (IF split THEN << <<0, mid>>, <<mid, n - mid>> >> ELSE <<>>)
                      \o singles[0]]

_score_batch_with_retry(n, off, full, left, right, one) ==
    BatchWithRetry("score", n, off, full, left, right, one)

_classify_batch_with_retry(n, off, full, left, right, one) ==
    BatchWithRetry("classify", n, off, full, left, right, one)

\* the answers to the whole batch: a batch of one item is answered as that
\* item alone is
WholeResponses(n, one) == IF n = 1 THEN {one[0]} ELSE Responses(n)

\* the answers to a half of m items: it is asked only when the first call
\* returned nothing, and a half of one item is answered as that item alone is
HalfResponses(firstR, m) == IF firstR # <<>> \/ m <= 1 THEN {<<>>} ELSE Responses(m)

BatchInit ==
    /\ batch_len \in 1..MaxBatch
    /\ offset \in 0..MaxOffset
    /\ single \in [0..(batch_len - 1) -> Responses(1)]
    /\ bpc = "ready"
    /\ first_call = <<>>
    /\ scores = <<>>
    /\ invoked = <<>>

BatchReturn(r, pc) ==
    /\ first_call' = r.first
    /\ scores' = r.scores
    /\ invoked' = r.invoked
    /\ bpc' = pc
    /\ UNCHANGED <<pipeVars, throttleVars, fnVars, batch_len, offset, single>>

RunScoreBatchWithRetry ==
    /\ bpc = "ready"
    /\ \E full \in WholeResponses(batch_len, single) :
         \E left \in HalfResponses(_score_batch(full, offset, batch_len), batch_len \div 2) :
           \E right \in HalfResponses(_score_batch(full, offset, batch_len), batch_len - batch_len \div 2) :
             BatchReturn(_score_batch_with_retry(batch_len, offset, full, left, right, single),
                         "scored")

RunClassifyBatchWithRetry ==
    /\ bpc = "ready"
    /\ \E full \in WholeResponses(batch_len, single) :
         \E left \in HalfResponses(_classify_batch(full, offset, batch_len), batch_len \div 2) :
           \E right \in HalfResponses(_classify_batch(full, offset, batch_len), batch_len - batch_len \div 2) :
             BatchReturn(_classify_batch_with_retry(batch_len, offset, full, left, right, single),
                         "classified")

BatchNext ==
    \/ RunScoreBatchWithRetry
    \/ RunClassifyBatchWithRetry

(***************************************************************************)
(* The specifications.                                                     *)
(***************************************************************************)
vars == <<pipeVars, throttleVars, batchVars, fnVars>>

\* one batch of one item, for the specifications that run no batch
BatchIdle == batch_len = 1 /\ offset = 0 /\ single = [i \in {0} |-> <<>>]

\* no function call of its own
FnIdle == fheap = EmptyDict /\ farg = <<>> /\ fpc = "idle" /\ fout = <<>>

Init == PipeInit /\ ThrottleInit /\ BatchIdle /\ BatchInit /\ FnIdle

\* the news graph run
Next == PipeNext

Spec == Init /\ [][Next]_vars

\* the worker threads and the throttle
SpecThrottle == Init /\ [][ThrottleNext]_vars

\* one call of a batch function, on every batch and every answer of the service
InitBatch == PipeInit /\ ThrottleInit /\ BatchInit /\ FnIdle

SpecBatch == InitBatch /\ [][BatchNext]_vars

(***************************************************************************)
(* The claims about the graph run, under Spec.                             *)
(***************************************************************************)
\* C1: the scorer stage executes at most three times in one run, also when
\* a scorer pass raises.
C1_ScorerAtMostThreePasses == runs["scorer"] <= 3

\* C2: every run reaches END and returns its output: the run is never
\* aborted.
C2_RunNeverAborted == status # "aborted"

\* C3: a stage that raised does not stop the run: once the run is over, the
\* stage is named in the final errors and the assembler has run.
C3_FailedStageDoesNotStopRun ==
    \A n \in failed :
        status # "running" =>
            /\ status = "end"
            /\ n \in Range(state.errors)
            /\ runs["assembler"] >= 1

\* the collector returned at least one item
Collected == \E k \in DOMAIN state.sources : state.sources[k] # <<>>

Branches == {"en_process", "ko_process"}

\* C4: with at least one collected item both branches are dispatched
\* together with the same state, and the categorizer is triggered only when
\* the updates of both have been applied.
C4_CategorizerAfterBothBranches ==
    /\ (DOMAIN tasks) \cap Branches # {} =>
          /\ DOMAIN tasks = Branches
          /\ DOMAIN send_arg = Branches
          /\ send_arg["en_process"] = send_arg["ko_process"]
          /\ send_arg["en_process"] = state
          /\ runs["categorizer"] = 0
    /\ (("categorizer" \in DOMAIN tasks \/ runs["categorizer"] > 0) /\ Collected) =>
          /\ Branches \subseteq DOMAIN state.node_timings
          /\ runs["en_process"] = 1 /\ runs["ko_process"] = 1
    /\ ("collector" \notin DOMAIN tasks /\ DOMAIN tasks # Branches
            /\ runs["en_process"] + runs["ko_process"] = 0) => ~Collected

\* the Korean branch returned first, the categorizer is about to start
C4_Witness ==
    /\ Collected
    /\ DOMAIN tasks = Branches
    /\ \A n \in Branches : tasks[n] = "done"
    /\ "ko_process" \in DOMAIN writes[1].node_timings
    /\ ENABLED Barrier

BothBranchesReturned ==
    /\ DOMAIN tasks = Branches
    /\ \A n \in Branches : tasks[n] = "done"

ErrorCount(errs, n) == Cardinality({k \in DOMAIN errs : errs[k] = n})

SourcesOf(u) == IF "sources" \in DOMAIN u THEN u.sources ELSE EmptyDict

\* C5: the updates of the two branches give the same merged state in either
\* order of application: their source keys are disjoint, no key of the state
\* is lost, and the errors are the same up to order.
C5_MergeOrderIndependent ==
    BothBranchesReturned =>
        LET a == writes[1]
            b == writes[2]
            ab == ApplyAll(state, <<a, b>>)
            ba == ApplyAll(state, <<b, a>>)
        IN /\ \A ch \in (DOMAIN state) \ {"errors"} : ab[ch] = ba[ch]
           /\ \A n \in Nodes : ErrorCount(ab.errors, n) = ErrorCount(ba.errors, n)
           /\ Len(ab.errors) = Len(state.errors) + Cardinality(failed \cap Branches)
           /\ DOMAIN SourcesOf(a) \cap DOMAIN SourcesOf(b) = {}
           /\ DOMAIN state.sources \subseteq DOMAIN ab.sources
           /\ \A k \in DOMAIN state.sources : ab.sources[k] = state.sources[k]

\* both branches returned a non-empty update of the sources
C5_Witness ==
    /\ BothBranchesReturned
    /\ DOMAIN SourcesOf(writes[1]) # {}
    /\ DOMAIN SourcesOf(writes[2]) # {}

\* C6: while the branches run, the articles the state refers to are left as
\* they are: they change only through the updates the engine applies.
C6_BranchesLeaveStateAlone ==
    [][(DOMAIN tasks) \cap Branches # {} => heap' = heap]_vars

(***************************************************************************)
(* The claims about the throttle, under SpecThrottle.                      *)
(***************************************************************************)
\* C7: in every interleaving of the threads that call _scorer_throttle, no
\* more than three calls are admitted within any window of five seconds.
C7_AtMostThreeAdmittedInWindow == Len(admitted) <= THROTTLE_LIMIT

\* C8: every read and every write of _scorer_call_ts is made by a thread
\* that holds _scorer_lock.
C8_ListAccessedUnderLock == accessor # 0 => _scorer_lock = accessor

\* a thread appends to the list while another one waits for the mutex
C8_Witness ==
    /\ accessor # 0
    /\ tpc[accessor] = "release2"
    /\ \E u \in Workers : u # accessor /\ tpc[u] = "acquire1"

(***************************************************************************)
(* The claims about the batch functions, under SpecBatch.                  *)
(***************************************************************************)
Kind == IF bpc = "scored" THEN "score" ELSE "classify"

\* asked about item i alone, the service's answer gives item i a result
SingleSucceeds(i) ==
    (offset + i) \in GlobalIdx(BatchCall(Kind, single[i], offset + i, 1))

\* the calls made for item i alone after the first call
IndividualRetries(i) ==
    Cardinality({k \in 2..Len(invoked) : invoked[k] = <<i, 1>>})

\* C9: when the call on the whole batch fails, the batch is split down to
\* single items, so that every item whose single-item call succeeds has a
\* result.
C9_FailedBatchSplitDownToSingles ==
    (bpc # "ready" /\ first_call = <<>>) =>
        \A i \in 0..(batch_len - 1) :
            SingleSucceeds(i) => (offset + i) \in GlobalIdx(scores)

\* C10: when the call on a batch of several items returns results, every
\* item it gave no result is retried alone exactly once, and no item it gave
\* a result is submitted again.
C10_MissingItemsRetriedOnce ==
    (bpc # "ready" /\ batch_len > 1 /\ first_call # <<>>) =>
        \A i \in 0..(batch_len - 1) :
            IndividualRetries(i) =
                (IF (offset + i) \in GlobalIdx(first_call) THEN 0 ELSE 1)

(***************************************************************************)
(* The claims about annotation and deduplication.                          *)
(***************************************************************************)
\* the items the branches hand to _process_articles
Annotated == Range(EnArticles(state, heap)) \cup Range(KoArticles(state, heap))

\* C11: once the annotation stage has run, every item that was handed to
\* annotation has a display title and a summary, whatever failed.
C11_AnnotatedItemsHaveTitleAndSummary ==
    ("categorizer" \in DOMAIN tasks \/ runs["categorizer"] > 0) =>
        \A i \in Annotated : heap[i].display_title # "" /\ heap[i].summary # ""

(***************************************************************************)
(* _deduplicate_candidates on candidate lists of its own: any links,       *)
(* titles and published times, and then once more on the list it kept.     *)
(***************************************************************************)
MaxCands == 3

\* a candidate as the categorizer hands it over
Candidate(link, title, published) ==
    [NewArticle(1, link, "text", FALSE) EXCEPT !.title = title, !.published = published]

CandidateHeaps ==
    UNION { [1..n -> { Candidate(l, t, p) : l \in Links, t \in 1..3, p \in 0..1 }] : n \in 1..MaxCands }

\* the items of a returned list that are not marked
KeptOf(h, list) == SelectSeq(list, LAMBDA i : ~h[i].deduped)

\* the persisted form of an item, with its back-reference a.get("_dedup_of", "")
_flatten_list(a) ==
    [ link      |-> a.link,
      published |-> a.published,
      score     |-> ScoreOf(a),
      category  |-> a.llm_category,
      dedup_of  |-> IF "_dedup_of" \in DOMAIN a THEN a._dedup_of ELSE "" ]

DedupInit ==
    /\ fheap \in CandidateHeaps
    /\ farg = [i \in DOMAIN fheap |-> i]
    /\ fpc = "ready"
    /\ fout = <<>>

RunDedup ==
    /\ fpc = "ready"
    /\ \E mark_only \in BOOLEAN :
          LET d == _deduplicate_candidates(fheap, farg, mark_only)
          IN /\ fheap' = d.heap
             /\ fout' = d.list
    /\ fpc' = "deduplicated"
    /\ UNCHANGED <<pipeVars, throttleVars, batchVars, farg>>

\* the same function on the list the first call kept
RunDedupAgain ==
    /\ fpc = "deduplicated"
    /\ \E mark_only \in BOOLEAN :
          LET kept == KeptOf(fheap, fout)
              d == _deduplicate_candidates(fheap, kept, mark_only)
          IN /\ farg' = kept
             /\ fheap' = d.heap
             /\ fout' = d.list
    /\ fpc' = "deduplicated_again"
    /\ UNCHANGED <<pipeVars, throttleVars, batchVars>>

DedupNext == RunDedup \/ RunDedupAgain

InitDedup == PipeInit /\ ThrottleInit /\ BatchIdle /\ BatchInit /\ DedupInit

SpecDedup == InitDedup /\ [][DedupNext]_vars

\* the items the call marked as duplicates, and the ones it kept
Dupes == { i \in DOMAIN fheap : fheap[i].deduped }

Kept == DOMAIN fheap \ Dupes

\* C12: after deduplication every item marked duplicate carries a
\* back-reference to the kept item it duplicates.
C12_DuplicateCarriesBackReference ==
    fpc = "deduplicated" =>
        \A i \in Dupes : _flatten_list(fheap[i]).dedup_of # ""

\* item i matches item k: the same URL key, or similar titles
Matches(i, k) ==
    \/ _extract_url_key(fheap[i].link) = _extract_url_key(fheap[k].link)
    \/ TitleSimilar(fheap[i].title, fheap[k].title)
    \/ DispSimilar(DispTitle(fheap[i]), DispTitle(fheap[k]))

C14_DedupIdempotent ==
    fpc = "deduplicated_again" =>
        /\ KeptOf(fheap, fout) = farg
        /\ fout = farg

\* the first call marked an item and the second was given two items or more
C14_Witness ==
    /\ fpc = "deduplicated_again"
    /\ Len(farg) >= 2
    /\ Dupes # {}

\* two links that differ at most by the trailing slash, the capitals and
\* the query string
SameButSlashCaseQuery(l1, l2) ==
    [l1 EXCEPT !.slash = l2.slash, !.upper = l2.upper, !.query = l2.query] = l2

\* C15: of two items whose URLs differ only by a trailing slash, letter
\* case or query, at most one is in the kept set.
C15_UrlVariantsMerged ==
    fpc = "deduplicated" =>
        \A i, k \in DOMAIN fheap :
            (i # k /\ SameButSlashCaseQuery(fheap[i].link, fheap[k].link))
                => ~(i \in Kept /\ k \in Kept)

\* two items with unlike titles whose links are written differently: one
\* is kept and the other marked
C15_Witness ==
    /\ fpc = "deduplicated"
    /\ \E i \in Kept : \E k \in Dupes :
          /\ fheap[i].link # fheap[k].link
          /\ SameButSlashCaseQuery(fheap[i].link, fheap[k].link)
          /\ ~TitleSimilar(fheap[k].title, fheap[i].title)
          /\ \A j \in Kept : j # i => ~Matches(k, j)


(* The claims about selection and scoring. *)
\* the items of the four outputs of the selector, counted
Accounted ==
    Len(state.highlights)
    + SumLen(state.categorized_articles, DOMAIN state.categorized_articles)
    + Len(state.filtered_articles)
    + SumLen(state.deduped_articles, DOMAIN state.deduped_articles)

\* C16: at the end of a run the highlights, the categorized lists, the
\* AI-filtered list and the duplicate buckets together hold as many items as
\* were collected.
C16_EveryCollectedItemAccountedOnce ==
    (status = "end" /\ failed = {}) => Accounted = Cardinality(DOMAIN heap)

(***************************************************************************)
(* selector_node and _select_category_top_n on scored candidate lists of   *)
(* their own.                                                              *)
(***************************************************************************)
MaxScored == 3

MaxTopN == 2

\* the quality check of the selector: if min_cat < 5
CATEGORY_MIN == 5

\* a candidate as the scorer leaves it
Scored(category, published, score, deduped) ==
    [NewArticle(1, LinkA, "text", FALSE) EXCEPT
        !.display_title = "llm", !.summary = "llm",
        !.llm_category = category, !.published = published,
        !.is_today = _is_today([published |-> published]),
        !.total_score = score, !.llm_scored = TRUE, !.deduped = deduped]

ScoredChoices ==
    { Scored(c, p, s, d) : c \in {"research", "models_products"}, p \in 0..1,
                           s \in {20, 50}, d \in BOOLEAN }

ScoredHeaps ==
    LET marked(h) == [i \in DOMAIN h |-> [h[i] EXCEPT !.ai_filtered = (i = 2)]]
    IN UNION { [1..n -> ScoredChoices] : n \in 1..MaxScored }
       \cup { marked(h) : h \in [1..2 -> ScoredChoices] }

SelectInit ==
    /\ fheap \in ScoredHeaps
    /\ farg = [i \in DOMAIN fheap |-> i]
    /\ fpc = "ready"
    /\ fout = <<>>

RunSelect ==
    /\ fpc = "ready"
    /\ fout' = selector_node([scored_candidates |-> farg], fheap)
    /\ fpc' = "selected"
    /\ UNCHANGED <<pipeVars, throttleVars, batchVars, fheap, farg>>

RunSelectTopN ==
    /\ fpc = "ready"
    /\ \E n \in 1..MaxTopN :
          fout' = [n |-> n, selected |-> _select_category_top_n(fheap, farg, n)]
    /\ fpc' = "top_n"
    /\ UNCHANGED <<pipeVars, throttleVars, batchVars, fheap, farg>>

SelectNext == RunSelect \/ RunSelectTopN

InitSelect == PipeInit /\ ThrottleInit /\ BatchIdle /\ BatchInit /\ SelectInit

SpecSelect == InitSelect /\ [][SelectNext]_vars

\* C17: when the selector returns, a category with fewer displayed items
\* than its minimum has no duplicate-marked item of its own left outside its
\* displayed list.
C17_ShortCategoryFilledFromDuplicates ==
    fpc = "selected" =>
        \A k \in VALID_CATEGORIES :
            \/ Len(fout.categorized_articles[k]) >= CATEGORY_MIN
            \/ fout.deduped_articles[k] = <<>>

\* C18: the list _select_category_top_n returns has at most n items.
C18_TopNBounded ==
    fpc = "top_n" => Len(fout.selected) <= fout.n

(***************************************************************************)
(* _apply_scores_to_candidate on sub-scores of its own: any integers from  *)
(* somewhat below 0 to somewhat above 10.                                  *)
(***************************************************************************)
SubScoreSpread == 2

SubScores == (0 - SubScoreSpread)..(10 + SubScoreSpread)

\* a categorized candidate: not scored yet, or with the default of a pass
\* in which it had another category
ToScore ==
    LET fresh(c) == [NewArticle(1, LinkA, "text", FALSE) EXCEPT !.llm_category = c]
    IN { fresh(c) : c \in VALID_CATEGORIES }
       \cup { [DefaultScore(fresh(d)) EXCEPT !.llm_category = c] : c, d \in VALID_CATEGORIES }

ScoreInit ==
    /\ fheap \in [{1} -> ToScore]
    /\ farg = <<1>>
    /\ fpc = "ready"
    /\ fout = <<>>

RunApplyScores ==
    /\ fpc = "ready"
    /\ \E s \in SubScores \X SubScores \X SubScores :
          /\ fheap' = [fheap EXCEPT ![1] = _apply_scores_to_candidate(@, s, @.llm_category)]
          /\ fout' = s
    /\ fpc' = "scored"
    /\ UNCHANGED <<pipeVars, throttleVars, batchVars, farg>>

ScoreNext == RunApplyScores

InitScore == PipeInit /\ ThrottleInit /\ BatchIdle /\ BatchInit /\ ScoreInit

SpecScore == InitScore /\ [][ScoreNext]_vars

\* x brought into 0..10
Into0To10(x) == IF x < 0 THEN 0 ELSE IF x > 10 THEN 10 ELSE x

\* C19: the three sub-scores of the item's category are stored clamped to
\* 0..10, the total is 4*a + 3*b + 3*c of the clamped values and lies in
\* 0..100, and the sub-scores of the other categories are 0.
C19_ScoresClampedAndWeighted ==
    fpc = "scored" =>
        LET a == fheap[1]
            own == a.subs[a.llm_category]
        IN /\ \A j \in 1..3 : own[j] = Into0To10(fout[j])
           /\ a.total_score = 4 * own[1] + 3 * own[2] + 3 * own[3]
           /\ a.total_score \in 0..100
           /\ \A c \in VALID_CATEGORIES \ {a.llm_category} : a.subs[c] = <<0, 0, 0>>

\* a sub-score above 10, one below 0 and one in between were given to a
\* research item
C19_Witness ==
    /\ fpc = "scored"
    /\ fout[1] > 10 /\ fout[2] < 0 /\ fout[3] \in 1..9
    /\ fheap[1].total_score = 40 + 3 * fout[3]
    /\ fheap[1].llm_category = "research"

\* the scorer has just finished a pass
ScorerPassed == "scorer" \in DOMAIN tasks /\ tasks["scorer"] = "done"

\* C20: after the scorer stage every candidate has a total score, and a
\* candidate the service gave no score to has the low default score of 20.
C20_EveryCandidateScoredAfterScorer ==
    ScorerPassed =>
        \A i \in Range(state.scored_candidates) :
            /\ heap[i].total_score # -1
            /\ ~heap[i].llm_scored => heap[i].total_score = 20

\* C21: the highlights hold at most one item of each category.
C21_OneHighlightPerCategory ==
    fpc = "selected" =>
        \A i, k \in Range(fout.highlights) :
            fheap[i].llm_category = fheap[k].llm_category => i = k

\* the service's title and summary were applied to the item
IsAnnotated(a) == a.display_title = "llm"

\* C22: no non-Korean item that has not been annotated is a highlight,
\* whether its display title is the raw title or was left unset.
C22_NoUnannotatedHighlight ==
    \A i \in Range(state.highlights) :
        heap[i].lang # "ko" => IsAnnotated(heap[i])

(***************************************************************************)
(* save_news_to_firestore: the document of the day, written by a first     *)
(* run and merged with a second run of the same day.                       *)
(***************************************************************************)
MaxFirstRun == 1

MaxSecondRun == 3

\* the light form of the AI-filtered and the duplicate items
_flatten_light(a) == _flatten_list(a)

\* the persisted items of a list, each with the run that produced it
Persisted(h, ids, run) ==
    [j \in DOMAIN ids |-> [k \in {"run"} |-> run] @@ _flatten_list(h[ids[j]])]

PersistedLight(h, ids, run) ==
    [j \in DOMAIN ids |-> [k \in {"run"} |-> run] @@ _flatten_light(h[ids[j]])]

\* seen[link] = a of _merge_articles, on a dict that keeps insertion order
Put(seen, a, overwrite) ==
    IF a.link = NoLink THEN seen
    ELSE IF \E j \in DOMAIN seen : seen[j].link = a.link
    THEN IF overwrite
         THEN [j \in DOMAIN seen |-> IF seen[j].link = a.link THEN a ELSE seen[j]]
         ELSE seen
    ELSE Append(seen, a)

RECURSIVE PutAll(_, _, _)
PutAll(seen, list, overwrite) ==
    IF list = <<>> THEN seen
    ELSE PutAll(Put(seen, Head(list), overwrite), Tail(list), overwrite)

_merge_articles(existing, new) == PutAll(PutAll(<<>>, new, TRUE), existing, FALSE)

\* d.get(key, [])
ListGet(d, key) == IF key \in DOMAIN d THEN d[key] ELSE <<>>

\* the non-empty links of all lists of a dict of lists
LinksOf(d) == UNION { { d[k][j].link : j \in DOMAIN d[k] } : k \in DOMAIN d } \ {NoLink}

\* hl_by_cat: per category the first item of the highest score
PutHighlight(acc, a) ==
    IF \E j \in DOMAIN acc : acc[j].category = a.category
    THEN [j \in DOMAIN acc |->
            IF acc[j].category = a.category /\ a.score > acc[j].score THEN a ELSE acc[j]]
    ELSE Append(acc, a)

RECURSIVE HlByCat(_, _)
HlByCat(acc, list) ==
    IF list = <<>> THEN acc ELSE HlByCat(PutHighlight(acc, Head(list)), Tail(list))

\* the merge of one dict of lists per category: the links of the new run
\* are removed from every old category first
MergeByCategory(old_cat, new_cat) ==
    LET new_links == LinksOf(new_cat)
        cleaned == [c \in DOMAIN old_cat |->
                      SelectSeq(old_cat[c], LAMBDA a : a.link \notin new_links)]
    IN [c \in DOMAIN cleaned \cup DOMAIN new_cat |->
          _merge_articles(ListGet(cleaned, c), ListGet(new_cat, c))]

ByScoreDesc(list) == SortedDesc(list, [j \in DOMAIN list |-> list[j].score])

\* no document of the day
NoDoc == [exists |-> FALSE]

\* the document doc_ref.set writes; old is what doc_ref.get gave
save_news_to_firestore(old, result) ==
    IF ~old.exists THEN [k \in {"exists"} |-> TRUE] @@ result
    ELSE LET merged_hl == HlByCat(<<>>, _merge_articles(old.highlights, result.highlights))
             categorized == MergeByCategory(old.categorized_articles, result.categorized_articles)
             deduped == MergeByCategory(old.deduped_articles, result.deduped_articles)
         IN [ exists |-> TRUE,
              highlights |->
                  SortedDesc(merged_hl, [j \in DOMAIN merged_hl |->
                                            merged_hl[j].score * 10 + merged_hl[j].published]),
              categorized_articles |->
                  [c \in DOMAIN categorized |-> ByScoreDesc(categorized[c])],
              source_articles |->
                  [s \in DOMAIN old.source_articles \cup DOMAIN result.source_articles |->
                      _merge_articles(ListGet(old.source_articles, s),
                                      ListGet(result.source_articles, s))],
              filtered_articles |->
                  _merge_articles(old.filtered_articles, result.filtered_articles),
              deduped_articles |->
                  [c \in {k \in DOMAIN deduped : deduped[k] # <<>>} |->
                      [j \in DOMAIN deduped[c] |-> [deduped[c][j] EXCEPT !.score = 0]]] ]

\* the candidates of one run: any link or none, unlike titles, any category
\* for the first and the two categories without highlights for the others
RunCandidates(max) ==
    LET choices(i) ==
            { [Scored(c, 1, 50, FALSE) EXCEPT !.link = l, !.title = 2 * i - 1, !.ai_filtered = f] :
                c \in IF i = 1 THEN VALID_CATEGORIES ELSE {"research", "industry_business"},
                l \in {NoLink, LinkA, LinkB},
                f \in IF i = 1 THEN BOOLEAN ELSE {FALSE} }
    IN UNION { { h \in [1..n -> UNION { choices(i) : i \in 1..n }] :
                    \A i \in 1..n : h[i] \in choices(i) } : n \in 1..max }

\* the articles of the section source aitimes a run returns
SectionChoices == { <<LinkA>>, <<LinkB, LinkA>> }

\* what run_news_pipeline returns, in persisted form
RunResult(h, section, run) ==
    LET d == _deduplicate_candidates(h, [i \in DOMAIN h |-> i], TRUE)
        sel == selector_node([scored_candidates |-> d.list], d.heap)
        sh == [j \in DOMAIN section |-> NewArticle(2, section[j], "text", FALSE)]
    IN [ highlights |-> Persisted(d.heap, sel.highlights, run),
         categorized_articles |->
             [c \in DOMAIN sel.categorized_articles |->
                 Persisted(d.heap, sel.categorized_articles[c], run)],
         source_articles |->
             IF section = <<>> THEN EmptyDict
             ELSE [s \in {"aitimes"} |-> Persisted(sh, [j \in DOMAIN sh |-> j], run)],
         filtered_articles |-> PersistedLight(d.heap, sel.filtered_articles, run),
         deduped_articles |->
             [c \in DOMAIN sel.deduped_articles |->
                 PersistedLight(d.heap, sel.deduped_articles[c], run)] ]

RunResults(max, run) ==
    { RunResult(h, s, run) : h \in RunCandidates(max), s \in SectionChoices }

\* the results of the two runs of the day
SaveInit ==
    /\ fheap = NoDoc
    /\ farg \in RunResults(MaxFirstRun, 1) \X RunResults(MaxSecondRun, 2)
    /\ fpc = "run_1"
    /\ fout = <<>>

\* save_news_to_firestore after the first and after the second run; a read
\* of the stored document that raises is taken as no document
SaveNews ==
    /\ fpc \in {"run_1", "run_2"}
    /\ \E read \in {"ok", "raised"} :
          LET old == IF read = "ok" THEN fheap ELSE NoDoc
              result == IF fpc = "run_1" THEN farg[1] ELSE farg[2]
          IN /\ fheap' = save_news_to_firestore(old, result)
             /\ fout' = [stored |-> fheap, read |-> read]
    /\ fpc' = IF fpc = "run_1" THEN "run_2" ELSE "saved_2"
    /\ UNCHANGED <<pipeVars, throttleVars, batchVars, farg>>

SaveNext == SaveNews

InitSave == PipeInit /\ ThrottleInit /\ BatchIdle /\ BatchInit /\ SaveInit

SpecSave == InitSave /\ [][SaveNext]_vars

\* the items of all lists of a dict of lists
ItemsOf(d) == UNION { Range(d[k]) : k \in DOMAIN d }

\* how many items of the lists of d have the link
CountLink(d, link) ==
    Cardinality(UNION { { <<k, j>> : j \in { i \in DOMAIN d[k] : d[k][i].link = link } } :
                           k \in DOMAIN d })

\* merged is the union by link of stored and new: every item of either is
\* there exactly once, in the version of the new run when that has the link
UnionByLink(stored, new, merged) ==
    /\ \A a \in ItemsOf(new) : CountLink(merged, a.link) = 1 /\ a \in ItemsOf(merged)
    /\ \A a \in ItemsOf(stored) :
          /\ CountLink(merged, a.link) = 1
          /\ a.link \notin { b.link : b \in ItemsOf(new) } => a \in ItemsOf(merged)

AsDict(list) == [k \in {"all"} |-> list]

\* the second save of the day is done
SecondSaveDone == fpc = "saved_2"

\* the result of the second run
NewRun == farg[2]

\* C23: after the second save of a day the categorized, the per-source and
\* the AI-filtered sets of the stored document are the union by link of the
\* document stored before and the new run.
C23_SecondSaveIsUnionByLink ==
    SecondSaveDone =>
        /\ UnionByLink(fout.stored.categorized_articles, NewRun.categorized_articles,
                       fheap.categorized_articles)
        /\ UnionByLink(fout.stored.source_articles, NewRun.source_articles,
                       fheap.source_articles)
        /\ UnionByLink(AsDict(fout.stored.filtered_articles), AsDict(NewRun.filtered_articles),
                       AsDict(fheap.filtered_articles))

\* no link is in two categories of a dict of lists
OneCategoryPerLink(d) ==
    \A c1, c2 \in DOMAIN d :
        c1 # c2 => { a.link : a \in Range(d[c1]) } \cap { a.link : a \in Range(d[c2]) } = {}

\* C24: after a same-day merge no link is in more than one category of
\* categorized_articles, nor in more than one category of deduped_articles.
C24_NoLinkInTwoCategories ==
    (SecondSaveDone /\ fout.read = "ok") =>
        /\ OneCategoryPerLink(fheap.categorized_articles)
        /\ OneCategoryPerLink(fheap.deduped_articles)

\* the stored highlights of a document
HighlightLinks(doc) == { a.link : a \in Range(doc.highlights) }

\* C25: after a second save of the day no article that was a highlight in
\* the stored document or in the new run is missing from the highlights.
C25_HighlightsAreUnion ==
    (SecondSaveDone /\ fout.read = "ok") =>
        HighlightLinks(fout.stored) \cup HighlightLinks(NewRun) \subseteq HighlightLinks(fheap)

(***************************************************************************)
(* The decoder _parse_llm_json on texts of its own. A text is a sequence   *)
(* of characters: the brackets, the braces, the comma, a digit for the     *)
(* members of an object, the double quote of a string, the asterisk, and   *)
(* p for any character of prose. Such a text has no white space, thinking  *)
(* tag, code fence or backslash: strip() and the substitutions of lines    *)
(* 134-137 leave it as it is, the ones of lines 141-149 are StripMarkup.   *)
(***************************************************************************)
MaxElems == 3

Digits == {"1", "2", "3"}

\* where a JSON value that starts at s[i] ends, plus one; 0 when there is none
RECURSIVE ParseValue(_, _)
RECURSIVE ParseMembers(_, _)
RECURSIVE ParseElements(_, _)
ParseValue(s, i) ==
    IF i > Len(s) THEN 0
    ELSE IF s[i] \in Digits THEN i + 1
    ELSE IF s[i] = "\""
         THEN IF \E j \in (i + 1)..Len(s) : s[j] = "\""
              THEN 1 + CHOOSE j \in (i + 1)..Len(s) :
                           s[j] = "\"" /\ \A k \in (i + 1)..(j - 1) : s[k] # "\""
              ELSE 0
    ELSE IF s[i] = "{" THEN ParseMembers(s, i + 1)
    ELSE IF s[i] = "["
         THEN IF i + 1 <= Len(s) /\ s[i + 1] = "]" THEN i + 2 ELSE ParseElements(s, i + 1)
    ELSE 0

ParseMembers(s, i) ==
    IF i > Len(s) THEN 0
    ELSE IF s[i] = "}" THEN i + 1
    ELSE LET n == ParseValue(s, i) IN IF n = 0 THEN 0 ELSE ParseMembers(s, n)

ParseElements(s, i) ==
    LET n == ParseValue(s, i)
    IN IF n = 0 \/ n > Len(s) THEN 0
       ELSE IF s[n] = "]" THEN n + 1
       ELSE IF s[n] = "," THEN ParseElements(s, n + 1)
       ELSE 0

\* json.loads: the value is kept as its text
json_loads(s) == [ok |-> s # <<>> /\ ParseValue(s, 1) = Len(s) + 1, value |-> s]

\* str.find and str.rfind, 0 for not found
Find(s, ch) ==
    IF \E i \in DOMAIN s : s[i] = ch
    THEN CHOOSE i \in DOMAIN s : s[i] = ch /\ \A j \in 1..(i - 1) : s[j] # ch
    ELSE 0

RFind(s, ch) ==
    IF \E i \in DOMAIN s : s[i] = ch
    THEN CHOOSE i \in DOMAIN s : s[i] = ch /\ \A j \in (i + 1)..Len(s) : s[j] # ch
    ELSE 0

Returned(v) == [raised |-> FALSE, value |-> v]

JSONDecodeError == [raised |-> TRUE, value |-> <<>>]

\* stage 2: from the first start_char to the last end_char
Stage2(text, start_char, end_char) ==
    LET start_idx == Find(text, start_char)
        last_end == RFind(text, end_char)
    IN IF start_idx # 0 /\ last_end > start_idx
       THEN json_loads(SubSeq(text, start_idx, last_end))
       ELSE [ok |-> FALSE, value |-> <<>>]

\* stage 3: the one object inside a broken array, returned as [obj]
Stage3(text) ==
    LET bracket_idx == Find(text, "[")
        bracket_end == RFind(text, "]")
        inner == SubSeq(text, bracket_idx + 1, bracket_end - 1)
    IN IF bracket_idx # 0 /\ bracket_end > bracket_idx /\ inner # <<>>
          /\ Head(inner) = "{" /\ inner[Len(inner)] = "}" /\ json_loads(inner).ok
       THEN [ok |-> TRUE, value |-> <<"[">> \o inner \o <<"]">>]
       ELSE [ok |-> FALSE, value |-> <<>>]

\* re.sub(r'[,\s]+$', '', s)
RECURSIVE StripCommas(_)
StripCommas(s) ==
    IF s # <<>> /\ s[Len(s)] = "," THEN StripCommas(SubSeq(s, 1, Len(s) - 1)) ELSE s

\* re.sub(r',\s*\{[^}]*$', '', s): the leftmost ",{" with no "}" after it
DropOpenObject(s) ==
    LET Opens(p) == s[p] = "," /\ p < Len(s) /\ s[p + 1] = "{"
                    /\ \A q \in (p + 2)..Len(s) : s[q] # "}"
    IN IF \E p \in DOMAIN s : Opens(p)
       THEN LET p == CHOOSE x \in DOMAIN s : Opens(x) /\ \A y \in 1..(x - 1) : ~Opens(y)
            IN SubSeq(s, 1, p - 1)
       ELSE s

\* stage 4: an array with "[" and no "]" after it
Stage4(text) ==
    LET bracket_idx == Find(text, "[")
        rest == SubSeq(text, bracket_idx, Len(text))
    IN IF bracket_idx # 0 /\ \A i \in DOMAIN rest : rest[i] # "]"
       THEN json_loads(Append(DropOpenObject(StripCommas(rest)), "]"))
       ELSE [ok |-> FALSE, value |-> <<>>]

\* stage 5: from the first start_char to where its depth, counted outside
\* the quoted strings, is back at 0
Stage5(text, start_char, end_char) ==
    LET start_idx == Find(text, start_char)
        Outside(j) == Cardinality({q \in start_idx..j : text[q] = "\""}) % 2 = 0
        Depth(i) == Cardinality({j \in start_idx..i : text[j] = start_char /\ Outside(j)})
                    - Cardinality({j \in start_idx..i : text[j] = end_char /\ Outside(j)})
        Closes(i) == i >= start_idx /\ Depth(i) = 0
    IN IF start_idx # 0 /\ \E i \in DOMAIN text : Closes(i)
       THEN LET i == CHOOSE x \in DOMAIN text : Closes(x) /\ \A y \in start_idx..(x - 1) : ~Closes(y)
            IN json_loads(SubSeq(text, start_idx, i))
       ELSE [ok |-> FALSE, value |-> <<>>]

\* the number of asterisks s starts with
RECURSIVE Stars(_)
Stars(s) == IF s # <<>> /\ Head(s) = "*" THEN 1 + Stars(Tail(s)) ELSE 0

Drop(s, n) == SubSeq(s, n + 1, Len(s))

\* re.sub(r'\{\s*\*+', '{', text)
RECURSIVE AfterOpenBrace(_)
AfterOpenBrace(s) ==
    IF s = <<>> THEN <<>>
    ELSE IF Head(s) = "{" THEN <<"{">> \o AfterOpenBrace(Drop(Tail(s), Stars(Tail(s))))
    ELSE <<Head(s)>> \o AfterOpenBrace(Tail(s))

\* re.sub(r'\*+\s*' + close, put, text): a run of asterisks in front of close
RECURSIVE BeforeClose(_, _, _)
BeforeClose(s, close, put) ==
    IF s = <<>> THEN <<>>
    ELSE IF Head(s) = "*"
         THEN LET n == Stars(s)
                  rest == Drop(s, n)
              IN IF rest # <<>> /\ Head(rest) = close
                 THEN put \o BeforeClose(Tail(rest), close, put)
                 ELSE SubSeq(s, 1, n) \o BeforeClose(rest, close, put)
    ELSE <<Head(s)>> \o BeforeClose(Tail(s), close, put)

\* re.sub(r'\[\s*\*+', '[{', text)
RECURSIVE AfterOpenBracket(_)
AfterOpenBracket(s) ==
    IF s = <<>> THEN <<>>
    ELSE IF Head(s) = "[" /\ Stars(Tail(s)) > 0
         THEN <<"[", "{">> \o AfterOpenBracket(Drop(Tail(s), Stars(Tail(s))))
    ELSE <<Head(s)>> \o AfterOpenBracket(Tail(s))

\* re.sub(r'\*+\s*,\s*\*+', '},{', text)
RECURSIVE BetweenObjects(_)
BetweenObjects(s) ==
    IF s = <<>> THEN <<>>
    ELSE IF Head(s) = "*"
         THEN LET n == Stars(s)
                  rest == Drop(s, n)
              IN IF rest # <<>> /\ Head(rest) = "," /\ Stars(Tail(rest)) > 0
                 THEN <<"}", ",", "{">> \o BetweenObjects(Drop(Tail(rest), Stars(Tail(rest))))
                 ELSE SubSeq(s, 1, n) \o BetweenObjects(rest)
    ELSE <<Head(s)>> \o BetweenObjects(Tail(s))

\* re.sub(r'\*{2,}', '', text)
RECURSIVE DropEmphasis(_)
DropEmphasis(s) ==
    IF s = <<>> THEN <<>>
    ELSE IF Head(s) = "*"
         THEN LET n == Stars(s)
              IN (IF n >= 2 THEN <<>> ELSE <<"*">>) \o DropEmphasis(Drop(s, n))
    ELSE <<Head(s)>> \o DropEmphasis(Tail(s))

\* lines 141-149, in their order
StripMarkup(text) ==
    DropEmphasis(BetweenObjects(
        BeforeClose(AfterOpenBracket(BeforeClose(AfterOpenBrace(text), "}", <<"}">>)),
                    "]", <<"}", "]">>)))

\* the stages after the substitutions
Stages(text) ==
    IF text = <<>> THEN JSONDecodeError
    ELSE IF json_loads(text).ok THEN Returned(text)
    ELSE IF Stage2(text, "[", "]").ok THEN Returned(Stage2(text, "[", "]").value)
    ELSE IF Stage2(text, "{", "}").ok THEN Returned(Stage2(text, "{", "}").value)
    ELSE IF Stage3(text).ok THEN Returned(Stage3(text).value)
    ELSE IF Stage4(text).ok THEN Returned(Stage4(text).value)
    ELSE IF Stage5(text, "[", "]").ok THEN Returned(Stage5(text, "[", "]").value)
    ELSE IF Stage5(text, "{", "}").ok THEN Returned(Stage5(text, "{", "}").value)
    ELSE JSONDecodeError

_parse_llm_json(text) ==
    IF text = <<>> THEN JSONDecodeError ELSE Stages(StripMarkup(text))


\* try: ... except Exception: return default
Uncaught(r, default) == r

Caught(r, default) == IF r.raised THEN Returned(default) ELSE r

AttributeError == [raised |-> TRUE, value |-> <<>>]

None == <<"None">>

IsList(v) == Head(v) = "["

IsDict(v) == Head(v) = "{"

\* next((v for v in results.values() if isinstance(v, list)), [])
RECURSIVE FirstListMember(_, _)
FirstListMember(obj, i) ==
    IF obj[i] = "}" THEN <<"[", "]">>
    ELSE IF obj[i] = "[" THEN SubSeq(obj, i, ParseValue(obj, i) - 1)
    ELSE FirstListMember(obj, ParseValue(obj, i))

\* the elements of a parsed list
RECURSIVE ListElements(_, _)
ListElements(list, i) ==
    IF list[i] = "]" THEN <<>>
    ELSE IF list[i] = "," THEN ListElements(list, i + 1)
    ELSE <<SubSeq(list, i, ParseValue(list, i) - 1)>> \o ListElements(list, ParseValue(list, i))

\* the digit an object starts with stands for its "i" (from 0) or "index" (from 1)
IndexOf(element) == CHOOSE k \in 1..3 : element[2] = <<"1", "2", "3">>[k]

\* the dicts of a parsed list as a response of the batch layer
ResponseOf(list) ==
    LET dicts == SelectSeq(ListElements(list, 2), IsDict)
    IN [k \in DOMAIN dicts |-> [i |-> IndexOf(dicts[k]) - 1, isint |-> TRUE, cat |-> TRUE]]

\* results, or the first list among the values of results when it is a dict
ListOf(value) == IF IsList(value) THEN value ELSE FirstListMember(value, 2)

\* the try block of _score_batch and _classify_batch on the service's text
BatchCallOn(kind, content, off, m) ==
    LET decoded == _parse_llm_json(content)
        try == IF decoded.raised THEN decoded
               ELSE IF ~IsList(decoded.value) /\ ~IsDict(decoded.value) THEN AttributeError
               ELSE Returned(BatchCall(kind, ResponseOf(ListOf(decoded.value)), off, m))
    IN Caught(try, <<>>)

\* the tail of _summarize_batch on the service's text
SummarizeBatchOn(content) ==
    LET decoded == _parse_llm_json(content)
        try == IF decoded.raised THEN decoded
               ELSE IF IsDict(decoded.value) THEN Returned(ListOf(decoded.value))
               ELSE IF IsList(decoded.value) THEN decoded
               ELSE Returned(None)
    IN Caught(try, None)

\* _apply_batch_results: the articles of the batch that get a summary
Summarized(results, m) ==
    IF results = None THEN {}
    ELSE { i \in 0..(m - 1) :
             \E e \in Range(SelectSeq(ListElements(results, 2), IsDict)) : IndexOf(e) - 1 = i }

\* _process_articles on one batch: the first pass, then the articles without
\* summary, each submitted again alone
ProcessBatchOn(content, m) ==
    LET call == SummarizeBatchOn(content)
    IN [call |-> call,
        failed |-> IF call.raised THEN 0..(m - 1)
                   ELSE (0..(m - 1)) \ Summarized(call.value, m)]

\* an answer with one valid entry for each of m items
Good(m) == [k \in 1..m |-> [i |-> k - 1, isint |-> TRUE, cat |-> TRUE]]

\* _score_batch_with_retry and _classify_batch_with_retry on a first answer
\* given as text; an exception of the first call leaves the function
BatchWithRetryOn(kind, content, n, off, later) ==
    LET call == BatchCallOn(kind, content, off, n)
        answer(m) == IF later THEN Good(m) ELSE <<>>
        full == IF call.value = <<>> THEN <<>>
                ELSE ResponseOf(ListOf(_parse_llm_json(content).value))
    IN [call |-> call,
        retry |-> IF call.raised THEN [first |-> <<>>, scores |-> <<>>, invoked |-> <<>>]
                  ELSE BatchWithRetry(kind, n, off, full, answer(n \div 2),
                                      answer(n - n \div 2), [i \in 0..(n - 1) |-> answer(1)])]

\* the texts a model answers with: an array of objects, whole or cut off
\* inside an element, alone or inside prose; one object; no JSON at all
FlatElement(d) == <<"{", d, "}">>

NestedElement(d) == <<"{", d, "{", d, "}", "}">>

Elements == { FlatElement(d) : d \in Digits } \cup { NestedElement(d) : d \in {"1"} }

\* an element cut off: after its brace, inside its members, after a nested
\* object of it has closed
CutElements == { <<"{">>, <<"{", "2">>, <<"{", "2", "{", "3">>, <<"{", "2", "{", "3", "}">> }

RECURSIVE JoinElements(_)
JoinElements(es) ==
    IF es = <<>> THEN <<>>
    ELSE IF Len(es) = 1 THEN es[1]
    ELSE es[1] \o <<",">> \o JoinElements(Tail(es))

ArrayOf(es) == <<"[">> \o JoinElements(es) \o <<"]">>

ElementLists == UNION { [1..n -> Elements] : n \in 1..MaxElems }

Answers ==
    { [shape |-> "whole", complete |-> es, text |-> ArrayOf(es)] : es \in ElementLists }
    \cup { [shape |-> "prose", complete |-> es, text |-> <<"p">> \o ArrayOf(es) \o <<"p">>] :
             es \in ElementLists }
    \cup { [shape |-> "cut", complete |-> es,
            text |-> <<"[">> \o JoinElements(es) \o <<",">> \o cut] :
             es \in ElementLists, cut \in CutElements }
    \cup { [shape |-> "object", complete |-> <<e>>, text |-> e] : e \in Elements }
    \cup { [shape |-> "none", complete |-> <<>>, text |-> t] :
             t \in { <<>>, <<"p">>, <<"p", "p">>, <<"[", "p">>, <<"{", "p", "}">> } }
    \cup { [shape |-> "scalar", complete |-> <<>>, text |-> <<d>>] : d \in Digits }
    \cup { [shape |-> "wrapped", complete |-> es, text |-> <<"{">> \o ArrayOf(es) \o <<"}">>] :
             es \in ElementLists }

DecodeInit ==
    /\ farg \in Answers
    /\ fheap = <<>>
    /\ fpc = "answered"
    /\ fout = <<>>

RunDecode ==
    /\ fpc = "answered"
    /\ fout' = _parse_llm_json(farg.text)
    /\ fpc' = "decoded"
    /\ UNCHANGED <<pipeVars, throttleVars, batchVars, fheap, farg>>

RunSummarizeBatch ==
    /\ fpc = "answered"
    /\ \E m \in 1..MaxBatch :
         /\ fout' = ProcessBatchOn(farg.text, m)
         /\ fheap' = [batch |-> m, offset |-> 0]
    /\ fpc' = "summarized"
    /\ UNCHANGED <<pipeVars, throttleVars, batchVars, farg>>

RunBatchWithRetryOn ==
    /\ fpc = "answered"
    /\ \E kind \in {"score", "classify"}, m \in 1..MaxBatch, off \in 0..MaxOffset, later \in BOOLEAN :
         /\ fout' = BatchWithRetryOn(kind, farg.text, m, off, later)
         /\ fheap' = [batch |-> m, offset |-> off]
         /\ fpc' = kind
    /\ UNCHANGED <<pipeVars, throttleVars, batchVars, farg>>

DecodeNext ==
    \/ RunDecode
    \/ RunSummarizeBatch
    \/ RunBatchWithRetryOn

InitDecode == PipeInit /\ ThrottleInit /\ BatchIdle /\ BatchInit /\ DecodeInit

SpecDecode == InitDecode /\ [][DecodeNext]_vars

\* what _parse_llm_json does with the answer of the state
Decoded == _parse_llm_json(farg.text)

\* C26: a JSON array cut off inside an element decodes to the list of exactly
\* the complete elements that precede the cut, for one or more of them.
C26_CutArrayGivesCompleteElements ==
    (fpc = "decoded" /\ farg.shape = "cut") =>
        /\ ~fout.raised
        /\ fout.value = ArrayOf(farg.complete)

\* both halves of a failed batch of more than one item were submitted
HalvesInvoked(r, m) ==
    m > 1 => {<<0, m \div 2>>, <<m \div 2, m - m \div 2>>} \subseteq Range(r.invoked)

ScorerTriggered ==
    /\ "scorer" \in DOMAIN tasks' /\ tasks'["scorer"] = "pending"
    /\ ~("scorer" \in DOMAIN tasks /\ tasks["scorer"] = "pending")

\* C28: in a run of the news graph collector, en_process, ko_process,
\* categorizer, selector and assembler are executed at most once each; only
\* the scorer is executed again, and only when the supersteps before it ran
\* the scorer alone and _route_after_scorer chose the scorer.
C28_OnlyScorerRepeats ==
    [][ /\ \A n \in Nodes \ {"scorer"} : runs'[n] <= 1
        /\ (ScorerTriggered /\ runs["scorer"] >= 1) =>
              /\ DOMAIN tasks = {"scorer"}
              /\ _route_after_scorer(state', heap) = "scorer" ]_vars

C28_Witness ==
    /\ status = "end"
    /\ runs["scorer"] >= 2
    /\ \A n \in Nodes \ {"scorer"} : runs[n] = 1

(***************************************************************************)
(* The principle pipeline (principle_team.py).  The graph is a chain with  *)
(* one loop, so a superstep runs one node: fheap is the graph state, farg  *)
(* the node of the next superstep, fpc the status of the run, fout the     *)
(* step, how often each node function was executed and the error entries   *)
(* the nodes have returned so far.  No channel of PrincipleGraphState has  *)
(* a reducer: an update replaces the old value.                            *)
(***************************************************************************)
\* the seeds of PRINCIPLE_SEEDS, by id
MaxSeeds == 2

PRINCIPLE_SEEDS == 1..MaxSeeds

\* seed: {} of the initial state
NoSeed == 0

\* confidence in tenths
CONFIDENCE_MIN == 7

MAX_RETRIES == 3

PrincipleNodes == {"seed_selector", "content_generator", "verifier", "retry_reseed", "assembler"}

Absent == [is |-> "None"]

\* a content generated for a seed: all required keys, some missing, or {}
Contents(seed) == { [is |-> kind, seed |-> seed] : kind \in {"full", "partial", "empty"} }

Truthy(content) == content.is \in {"full", "partial"}

Verifications == { [is |-> "dict", verified |-> v, confidence |-> c] :
                     v \in BOOLEAN, c \in {0, 6, 7, 9} }

PrincipleInitial ==
    [ seed |-> NoSeed, content |-> Absent, verification |-> Absent, result |-> Absent,
      retry_count |-> 0, errors |-> <<>>, node_timings |-> {} ]

\* the wrapper of every node: an exception becomes an errors entry, and the
\* timing of the node is added to what the node returned
PrincipleSafeNode(n, raised, result) ==
    (IF raised THEN [errors |-> <<n>>] ELSE result) @@ [node_timings |-> {n}]

\* the engine writes each key of the update over the channel
Overwrite(st, update) ==
    [ch \in DOMAIN st |-> IF ch \in DOMAIN update THEN update[ch] ELSE st[ch]]

\* should_retry, the router after verifier, with no limit on the retries
RetryWithoutLimit(st) ==
    LET verified == IF st.verification.is = "dict" THEN st.verification.verified ELSE FALSE
        confidence == IF st.verification.is = "dict" THEN st.verification.confidence ELSE 0
    IN IF ~verified \/ confidence < CONFIDENCE_MIN THEN "retry" ELSE "pass"

should_retry(st) ==
    LET verified == IF st.verification.is = "dict" THEN st.verification.verified ELSE FALSE
        confidence == IF st.verification.is = "dict" THEN st.verification.confidence ELSE 0
    IN IF (~verified \/ confidence < CONFIDENCE_MIN) /\ st.retry_count < MAX_RETRIES
       THEN "retry"
       ELSE "pass"

\* _build_graph of principle_team.py: the node after n, "END" after assembler
PrincipleEdges(n, st) ==
    CASE n = "seed_selector" -> "content_generator"
      [] n = "content_generator" -> "verifier"
      [] n = "verifier" -> IF should_retry(st) = "retry" THEN "retry_reseed" ELSE "assembler"
      [] n = "retry_reseed" -> "content_generator"
      [] n = "assembler" -> "END"

\* a node function has run: the engine applies its update and triggers the
\* next node, reaches END, or raises GraphRecursionError at the step limit
PrincipleStep(n, raised, result) ==
    LET update == PrincipleSafeNode(n, raised, result)
        st == Overwrite(fheap, update)
        next == PrincipleEdges(n, st)
    IN /\ fheap' = st
       /\ fout' = [step |-> IF next = "END" \/ fout.step >= RecursionLimit
                            THEN fout.step ELSE fout.step + 1,
                   runs |-> [fout.runs EXCEPT ![n] = @ + 1],
                   produced |-> fout.produced \cup
                                (IF "errors" \in DOMAIN update
                                 THEN Range(update.errors) ELSE {})]
       /\ fpc' = IF next = "END" THEN "end"
                 ELSE IF fout.step >= RecursionLimit THEN "aborted"
                 ELSE "running"
       /\ farg' = IF next = "END" \/ fout.step >= RecursionLimit THEN "END" ELSE next
       /\ UNCHANGED <<pipeVars, throttleVars, batchVars>>

PrincipleInit ==
    /\ fheap = PrincipleInitial
    /\ farg = "seed_selector"
    /\ fpc = "running"
    /\ fout = [step |-> 1, runs |-> [n \in PrincipleNodes |-> 0], produced |-> {}]

\* seed_selector: the store may be out of reach; else one of the seeds
RunSeedSelector ==
    /\ fpc = "running" /\ farg = "seed_selector"
    /\ \/ PrincipleStep("seed_selector", TRUE, EmptyDict)
       \/ \E seed \in PRINCIPLE_SEEDS : PrincipleStep("seed_selector", FALSE, [seed |-> seed])

\* content_generator: no seed; the service or the parse raises; keys are
\* missing (the content is returned beside the error); or the content is whole
RunContentGenerator ==
    /\ fpc = "running" /\ farg = "content_generator"
    /\ IF fheap.seed = NoSeed
       THEN PrincipleStep("content_generator", FALSE, [errors |-> <<"content_generator">>])
       ELSE \/ PrincipleStep("content_generator", TRUE, EmptyDict)
            \/ \E content \in Contents(fheap.seed) :
                 PrincipleStep("content_generator", FALSE,
                     IF content.is = "full" THEN [content |-> content]
                     ELSE [errors |-> <<"content_generator">>, content |-> content])

\* verifier: without content a failed verification; else the service or the
\* parse raises, or the service's verdict is stored
RunVerifier ==
    /\ fpc = "running" /\ farg = "verifier"
    /\ IF ~Truthy(fheap.content)
       THEN PrincipleStep("verifier", FALSE,
                [verification |-> [is |-> "dict", verified |-> FALSE, confidence |-> 0]])
       ELSE \/ PrincipleStep("verifier", TRUE, EmptyDict)
            \/ \E verification \in Verifications :
                 PrincipleStep("verifier", FALSE, [verification |-> verification])

\* retry_reseed returning the seed and the counter only
ReseedKeepsContent(st, new_seed) ==
    [seed |-> new_seed, retry_count |-> st.retry_count + 1]

\* what retry_reseed returns for the seed it drew
retry_reseed(st, new_seed) ==
    [seed |-> new_seed, retry_count |-> st.retry_count + 1,
     content |-> Absent, verification |-> Absent]

\* retry_reseed: another seed, the counter advanced, content and verification cleared
RunRetryReseed ==
    /\ fpc = "running" /\ farg = "retry_reseed"
    /\ LET others == PRINCIPLE_SEEDS \ {fheap.seed}
           candidates == IF others = {} THEN PRINCIPLE_SEEDS ELSE others
       IN \E new_seed \in candidates :
            PrincipleStep("retry_reseed", FALSE, retry_reseed(fheap, new_seed))

\* assembler: nothing to assemble; building the document raises; the store
\* fails (the document is returned beside the error); or the document is stored
RunPrincipleAssembler ==
    /\ fpc = "running" /\ farg = "assembler"
    /\ IF fheap.seed = NoSeed \/ ~Truthy(fheap.content)
       THEN PrincipleStep("assembler", FALSE, [errors |-> <<"assembler">>, result |-> Absent])
       ELSE LET doc == [is |-> "doc", seed |-> fheap.seed, content |-> fheap.content,
                        verification |-> fheap.verification]
            IN \/ PrincipleStep("assembler", TRUE, EmptyDict)
               \/ PrincipleStep("assembler", FALSE, [errors |-> <<"assembler">>, result |-> doc])
               \/ PrincipleStep("assembler", FALSE, [result |-> doc])

PrincipleNext ==
    \/ RunSeedSelector
    \/ RunContentGenerator
    \/ RunVerifier
    \/ RunRetryReseed
    \/ RunPrincipleAssembler

InitPrinciple == PipeInit /\ ThrottleInit /\ BatchIdle /\ BatchInit /\ PrincipleInit

SpecPrinciple == InitPrinciple /\ [][PrincipleNext]_vars

\* the verification in the state has failed or is of low confidence
VerificationFailed ==
    \/ fheap.verification.is # "dict"
    \/ ~fheap.verification.verified
    \/ fheap.verification.confidence < CONFIDENCE_MIN

\* C29: in a run of the principle pipeline retry_reseed is executed at most
\* 3 times and content_generator at most 4 times; after the third retry a
\* failed verification leads to the assembler, and every run ends there.
C29_AtMostThreeRetries ==
    /\ fout.runs["retry_reseed"] <= MAX_RETRIES
    /\ fout.runs["content_generator"] <= MAX_RETRIES + 1
    /\ fout.runs["retry_reseed"] = fheap.retry_count
    /\ farg = "retry_reseed" => (VerificationFailed /\ fheap.retry_count < MAX_RETRIES)
    /\ (farg = "assembler" /\ VerificationFailed) => fheap.retry_count = MAX_RETRIES
    /\ fpc # "aborted"
    /\ fpc = "end" => fout.runs["assembler"] = 1

C29_Witness ==
    /\ fpc = "end"
    /\ fout.runs["retry_reseed"] = 3
    /\ fout.runs["content_generator"] = 4
    /\ VerificationFailed
    /\ fheap.result.is = "doc"
    /\ fheap.result.content = fheap.content

(***************************************************************************)
(* categorizer_node on candidates of its own: each candidate with the      *)
(* label the service gives it, or "none" when no result names it.          *)
(***************************************************************************)
Labels == VALID_CATEGORIES \cup {"unknown", "none"}

\* _classify_batch keeps a result only when its "cat" is a valid category
ClassifiedAs(label) == IF label \in VALID_CATEGORIES THEN label ELSE ""

CategorizeHeaps ==
    UNION { [1..n -> { Candidate(l, t, 1) : l \in {LinkA, LinkB}, t \in {1, 3} }] :
              n \in 1..MaxCands }

CategorizeInit ==
    /\ fheap \in CategorizeHeaps
    /\ farg \in UNION { [1..n -> Labels] : n \in 1..MaxCands }
    /\ DOMAIN farg = DOMAIN fheap
    /\ fpc = "collected"
    /\ fout = <<>>

RunCategorize ==
    /\ fpc = "collected"
    /\ LET st == [sources |-> ("wired_ai" :> [i \in DOMAIN fheap |-> i])]
           r == categorizer_node(st, fheap, [i \in DOMAIN fheap |-> ClassifiedAs(farg[i])])
       IN /\ fheap' = r.heap
          /\ fout' = r.result.scored_candidates
    /\ fpc' = "categorized"
    /\ UNCHANGED <<pipeVars, throttleVars, batchVars, farg>>

CategorizeNext == RunCategorize

InitCategorize == PipeInit /\ ThrottleInit /\ BatchIdle /\ BatchInit /\ CategorizeInit

SpecCategorize == InitCategorize /\ [][CategorizeNext]_vars

\* C30: after categorizer_node every candidate, the ones marked as duplicates
\* included, is still in the list and has one of the three categories: the
\* service's label when it is one of them, industry_business when the
\* service gave no label or an unknown one.
C30_EveryCandidateCategorized ==
    fpc = "categorized" =>
        /\ Range(fout) = DOMAIN fheap
        /\ Len(fout) = Len(fheap)
        /\ \A i \in DOMAIN fheap :
              /\ fheap[i].llm_category \in VALID_CATEGORIES
              /\ fheap[i].llm_category =
                    IF farg[i] \in VALID_CATEGORIES THEN farg[i] ELSE "industry_business"

C30_Witness ==
    /\ fpc = "categorized"
    /\ \E i, k, m \in DOMAIN fheap :
          /\ fheap[i].deduped /\ farg[i] = "none" /\ fheap[i].llm_category = "industry_business"
          /\ farg[k] = "unknown" /\ fheap[k].llm_category = "industry_business"
          /\ farg[m] = "models_products" /\ fheap[m].llm_category = "models_products"

\* the collector's superstep is over and no source holds an item
NothingCollected ==
    /\ runs["collector"] = 1
    /\ "collector" \notin DOMAIN tasks
    /\ SumLen(state.sources, DOMAIN state.sources) = 0

\* C31: when the collector yields no item, also because it failed, the run
\* goes from the collector to the assembler and ends there: en_process,
\* ko_process, categorizer, scorer and selector are never executed.
C31_EmptyCollectionGoesToAssembler ==
    NothingCollected =>
        /\ \A n \in {"en_process", "ko_process", "categorizer", "scorer", "selector"} :
              runs[n] = 0 /\ n \notin DOMAIN tasks
        /\ status # "aborted"
        /\ status = "running" => DOMAIN tasks = {"assembler"}
        /\ status = "end" => runs["assembler"] = 1

C31_Witness ==
    /\ NothingCollected
    /\ "collector" \in failed
    /\ status = "end"
    /\ runs["assembler"] = 1

\* scorer_node on the scores of one batch: the positions of the batch whose
\* candidate receives a score (0 <= global_idx - b_offset < len(b_articles))
ScorerApplied(s, off, n) == { g - off : g \in GlobalIdx(s) } \cap (0..(n - 1))

\* a response to the call on item p alone that names p: an entry with "i" 0,
\* or one entry without usable "i", mapped by its place
NamesItsItem(resp) ==
    \/ \E k \in DOMAIN resp : resp[k].isint /\ resp[k].i = 0
    \/ Len(resp) = 1 /\ ~resp[1].isint

\* position p of the batch was named by a call that held it: by the first
\* call on the whole batch, by the call on p alone, or by a call on a half of
\* two or more items around p
Designated(p) ==
    \/ offset + p \in GlobalIdx(first_call)
    \/ \E k \in DOMAIN invoked :
          /\ invoked[k][1] = p /\ invoked[k][2] = 1 /\ batch_len > 1
          /\ NamesItsItem(single[p])
    \/ \E k \in DOMAIN invoked :
          /\ k > 1 /\ invoked[k][2] >= 2
          /\ invoked[k][1] <= p /\ p < invoked[k][1] + invoked[k][2]

\* C33: a score returned for position i of a batch is applied to the
\* candidate at position i of that batch and to no other, for every split
\* and retry of the batch; a result whose index is outside the batch it was
\* returned for is applied to no candidate.
C33_ResultAppliedToItsPosition ==
    bpc = "scored" =>
        \A p \in ScorerApplied(scores, offset, batch_len) : Designated(p)

(***************************************************************************)
(* The scorer loop on candidate lists of its own: fheap holds the          *)
(* candidates as the categorizer leaves them, farg the scored_candidates   *)
(* and scorer_retry_count channels, fout the passes made so far.           *)
(***************************************************************************)
\* the passes after which a loop of raising passes is followed no further
MaxPasses == 4

Categorized(category, deduped) ==
    [NewArticle(1, LinkA, "text", FALSE) EXCEPT !.llm_category = category, !.deduped = deduped]

ScorerHeaps ==
    UNION { [1..n -> { Categorized(c, d) : c \in {"research", "models_products"}, d \in BOOLEAN }] :
              n \in 1..MaxScored }

ScorerLoopInit ==
    /\ fheap \in ScorerHeaps
    /\ farg = [scored_candidates |-> [i \in DOMAIN fheap |-> i], scorer_retry_count |-> 0]
    /\ fpc = "scorer"
    /\ fout = 0

\* the engine after a pass: the update is applied, then _route_after_scorer
ScorerRouted(st, h) ==
    /\ farg' = st
    /\ fheap' = h
    /\ fout' = fout + 1
    /\ fpc' = _route_after_scorer(st, h)
    /\ UNCHANGED <<pipeVars, throttleVars, batchVars>>

\* a pass of scorer_node that returns
ScorerPassReturns ==
    /\ fpc = "scorer" /\ fout < MaxPasses
    /\ \E out \in [Unscored(farg.scored_candidates, fheap) -> ScoreOutcomes] :
          /\ \A i \in DOMAIN out : out[i].kind # "bad"
          /\ ScorerRouted([farg EXCEPT !.scorer_retry_count = scorer_node(farg).scorer_retry_count],
                          ScorerFallback(farg, ScorerApply(farg, fheap, out,
                                             {i \in DOMAIN out : out[i].kind = "ok"}, 0)))

\* a pass of scorer_node that raises at the result of candidate bad, after
\* the results in applied: the wrapper's update holds no channel of the loop
ScorerPassRaises ==
    /\ fpc = "scorer" /\ fout < MaxPasses
    /\ \E out \in [Unscored(farg.scored_candidates, fheap) -> ScoreOutcomes] :
          \E bad \in {i \in DOMAIN out : out[i].kind = "bad"} :
             \E applied \in SUBSET {i \in DOMAIN out : out[i].kind = "ok"} :
                ScorerRouted(farg, ScorerApply(farg, fheap, out, applied, bad))

ScorerLoopNext ==
    \/ ScorerPassReturns
    \/ ScorerPassRaises

InitScorerLoop == PipeInit /\ ThrottleInit /\ BatchIdle /\ BatchInit /\ ScorerLoopInit

SpecScorerLoop == InitScorerLoop /\ [][ScorerLoopNext]_vars

\* the step is a pass of the scorer after an earlier pass
ScorerRetryPass == fout >= 1 /\ fout' = fout + 1

\* C32: a retry pass of the scorer submits only the candidates that are no
\* duplicates and have no score of the service: a candidate the service
\* scored before keeps its sub-scores and total across the pass, and a
\* duplicate gets no score of the service.
C32_RetryLeavesScoredCandidates ==
    [][ ScorerRetryPass =>
          \A i \in DOMAIN fheap :
              /\ fheap[i].llm_scored =>
                    /\ fheap'[i].subs = fheap[i].subs
                    /\ fheap'[i].total_score = fheap[i].total_score
                    /\ fheap'[i].llm_scored
              /\ fheap[i].deduped => ~fheap'[i].llm_scored ]_vars

\* two passes were made, the first scored one candidate, the second another
C32_Witness ==
    /\ fout = 2
    /\ farg.scorer_retry_count = 2
    /\ \E i, k \in DOMAIN fheap :
          /\ i # k
          /\ fheap[i].llm_scored /\ fheap[k].llm_scored
          /\ \E d \in DOMAIN fheap : fheap[d].deduped /\ ~fheap[d].llm_scored

\* C34: after the selector no item marked as duplicate is displayed: neither
\* the highlights nor a categorized list holds an item whose duplicate flag
\* is set.
C34_NoDuplicateDisplayed ==
    fpc = "selected" =>
        /\ \A i \in Range(fout.highlights) : ~fheap[i].deduped
        /\ \A c \in DOMAIN fout.categorized_articles :
              \A i \in Range(fout.categorized_articles[c]) : ~fheap[i].deduped

\* the links, other than the empty one, that are both among the highlights
\* and in a categorized list of a run's result or of the stored document
ShownTwice(doc) == (HighlightLinks(doc) \ {NoLink}) \cap LinksOf(doc.categorized_articles)

\* C35: after the saves of a day no link is both in the stored highlights
\* and in a stored categorized list, when within each run the highlights and
\* the categorized lists share no link.
C35_HighlightNotAlsoCategorized ==
    (fpc \in {"run_2", "saved_2"} /\ ShownTwice(farg[1]) = {} /\ ShownTwice(farg[2]) = {}) =>
        ShownTwice(fheap) = {}


C37_ErrorsAccumulate ==
    fpc = "end" => fout.produced \subseteq Range(fheap.errors)


(***************************************************************************)
(* _parse_llm_json on documents with strings.  farg is the text, fout what *)
(* the call returned.  The texts are JSON documents whose strings hold     *)
(* prose, asterisks and structural characters, and answers in which        *)
(* asterisks stand where the braces of the objects should be.              *)
(***************************************************************************)
MaxString == 2

Marks == {"*", "p", "[", "]", "{", "}", ","}

StringBodies == UNION { [1..n -> Marks] : n \in 0..MaxString }

Quoted(body) == <<"\"">> \o body \o <<"\"">>

\* a number, or a string
Scalars == {<<"1">>} \cup { Quoted(body) : body \in StringBodies }

\* a scalar, an array of one or two scalars, an object
Documents ==
    Scalars
    \cup { <<"[">> \o v \o <<"]">> : v \in Scalars }
    \cup { <<"[">> \o v \o <<",", "2">> \o <<"]">> : v \in Scalars }
    \cup { <<"{">> \o v \o <<"}">> : v \in Scalars }

\* an array whose objects are marked by runs of asterisks
MarkedAnswers ==
    { <<"[">> \o open \o <<"1">> \o close \o <<"]">> :
        open \in {<<"*">>, <<"*", "*">>, <<"{", "*">>}, close \in {<<"*">>, <<"*", "*">>, <<"*", "}">>} }
    \cup { <<"[", "*", "1", "*", ",", "*", "2", "*", "]">>,
           <<"[", "{", "*", "*", "1", "}", ",", "{", "2", "*", "*", "}", "]">> }

ParseInit ==
    /\ farg \in Documents \cup MarkedAnswers
    /\ fheap = <<>>
    /\ fpc = "call"
    /\ fout = JSONDecodeError

RunParse ==
    /\ fpc = "call"
    /\ fout' = _parse_llm_json(farg)
    /\ fpc' = "returned"
    /\ UNCHANGED <<fheap, farg, pipeVars, throttleVars, batchVars>>

ParseNext == RunParse

InitParse == PipeInit /\ ThrottleInit /\ BatchIdle /\ BatchInit /\ ParseInit

SpecParse == InitParse /\ [][ParseNext]_vars

\* C38: for a text that is a valid JSON document, _parse_llm_json returns
\* the value the direct parse of that text gives.
C38_ValidDocumentUnchanged ==
    (fpc = "returned" /\ json_loads(farg).ok) => fout = Returned(json_loads(farg).value)


(***************************************************************************)
(* _apply_batch_results on result objects of its own.  A result is a dict  *)
(* with or without an index (missing, null or a number) that carries a     *)
(* summary, only a display title, or nothing, or it is no dict.  An item   *)
(* of the batch records the place in results of the result that set its    *)
(* summary and its display title, 0 for none.  farg is the call, fheap the *)
(* batch, fout the returned count, whether the call raised, and the pairs  *)
(* <<place of the result, position of the item>> the call has applied.     *)
(***************************************************************************)
MaxResults == 3

MaxItems == 2

NoIndex == [is |-> "missing"]

NullIndex == [is |-> "None"]

IntIndex(n) == [is |-> "int", n |-> n]

NotDict == [dict |-> FALSE, index |-> NoIndex, fields |-> "none"]

ResultObjects ==
    { [dict |-> TRUE, index |-> index, fields |-> fields] :
        index \in {NoIndex, NullIndex} \cup { IntIndex(n) : n \in 1..(MaxItems + 1) },
        fields \in {"summary", "title", "none"} }
    \cup {NotDict}

\* the places of the dicts in results, and the place of k among them
DictPlaces(results) == { k \in DOMAIN results : results[k].dict }

PlaceAmongDicts(results, k) == Cardinality({ j \in DictPlaces(results) : j <= k })

\* lines 363-367: no dict has an index and there are as many dicts as items
Positional(results, n) ==
    /\ \A k \in DictPlaces(results) : results[k].index.is # "int"
    /\ Cardinality(DictPlaces(results)) = n

\* lines 365-367: the dicts get their place as index, 1-based
WithPositions(results, n) ==
    IF Positional(results, n)
    THEN [k \in DOMAIN results |->
            IF results[k].dict
            THEN [results[k] EXCEPT !.index = IntIndex(PlaceAmongDicts(results, k))]
            ELSE results[k]]
    ELSE results

\* lines 369-416 for the result at place k
ApplyOne(acc, r, k) ==
    IF acc.raised \/ ~r.dict THEN acc
    ELSE IF r.index.is = "None" THEN [acc EXCEPT !.raised = TRUE]
    ELSE LET ridx == (IF r.index.is = "missing" THEN 1 ELSE r.index.n) - 1
         IN IF ridx < 0 \/ ridx >= Len(acc.batch) \/ r.fields = "none" THEN acc
            ELSE IF r.fields = "summary"
            THEN [acc EXCEPT !.batch[ridx + 1].summary = k, !.done = @ + 1,
                             !.applied = @ \cup {<<k, ridx>>}]
            ELSE [acc EXCEPT !.batch[ridx + 1].display_title = k,
                             !.applied = @ \cup {<<k, ridx>>}]

RECURSIVE ApplyFrom(_, _, _)
ApplyFrom(acc, results, k) ==
    IF k > Len(results) THEN acc
    ELSE ApplyFrom(ApplyOne(acc, results[k], k), results, k + 1)

\* _apply_batch_results(batch, results)
ApplyResults(batch, results) ==
    LET start == [batch |-> batch, done |-> 0, raised |-> FALSE, applied |-> {}]
    IN IF results = <<>> THEN start
       ELSE ApplyFrom(start, WithPositions(results, Len(batch)), 1)

ApplyInit ==
    /\ \E n \in 1..MaxItems, m \in 0..MaxResults :
          /\ fheap = [i \in 1..n |-> [summary |-> 0, display_title |-> 0]]
          /\ farg \in [1..m -> ResultObjects]
    /\ fpc = "call"
    /\ fout = [done |-> 0, raised |-> FALSE, applied |-> {}]

RunApply ==
    /\ fpc = "call"
    /\ LET ret == ApplyResults(fheap, farg)
       IN /\ fheap' = ret.batch
          /\ fout' = [done |-> ret.done, raised |-> ret.raised, applied |-> ret.applied]
    /\ fpc' = "returned"
    /\ UNCHANGED <<farg, pipeVars, throttleVars, batchVars>>

ApplyNext == RunApply

InitApply == PipeInit /\ ThrottleInit /\ BatchIdle /\ BatchInit /\ ApplyInit

SpecApply == InitApply /\ [][ApplyNext]_vars

\* C39: a result object without an index field is applied to an item only
\* by its place, and only when there are as many result objects as items
\* and none of them has an index; otherwise it is applied to no item.
C39_IndexlessAppliedByPlaceOnly ==
    fpc = "returned" =>
        \A k \in DictPlaces(farg) : \A i \in 0..(Len(fheap) - 1) :
            (farg[k].index = NoIndex /\ <<k, i>> \in fout.applied) =>
                (Positional(farg, Len(fheap)) /\ i = PlaceAmongDicts(farg, k) - 1)

====
